---- MODULE Spec2Model ----
(***************************************************************************)
(* A model of the rustic scene interpreter: the animation engine           *)
(* (interpreter/animation.rs: first_pass, second_pass, CubicBezierEasing), *)
(* the mesh command and its cache (interpreter/run_script.rs) and the      *)
(* rasterizer's culling test (render/polygon_list.rs, render/texture.rs).  *)
(***************************************************************************)
EXTENDS Integers, Sequences, FiniteSets, TLC

\* ------------------------------------------------------------------------
\* Bounds of the model.
\* ------------------------------------------------------------------------

\* The largest frame count, and the largest frame index a directive names.
MaxFrames == 2

\* The start and end values a vary directive names are 0 and MaxVal.
MaxVal == 2

\* The number of commands pass 2 reads at most.
MaxCmds == 4

\* The number of commands in a list given to pass 1 at most.
MaxList == 4

\* The number of commands in the script of a run at most.
MaxScript == 3

\* The nested calls of evaluate_commands the stack of the thread has room for.
MaxDepth == 3

\* Resolution of the fixed-point arithmetic standing for f32 inside the
\* Newton solve of CubicBezierEasing::eval (one unit is 1/Scale).
Scale == 1000

\* ------------------------------------------------------------------------
\* f32 values.  A knob value is a rational n/d in lowest terms (d > 0) or one
\* of the IEEE specials the code can produce: NaN, +inf, -inf.  Rounding of
\* finite results is not modelled; division by zero is.
\* ------------------------------------------------------------------------

Abs(i) == IF i < 0 THEN -i ELSE i

RECURSIVE GCD(_, _)
GCD(a, b) == IF b = 0 THEN a ELSE GCD(b, a % b)

Rat(n, d) ==
    LET g == GCD(Abs(n), d)
    IN  [cls |-> "fin", n |-> n \div g, d |-> d \div g]

NaN == [cls |-> "nan", n |-> 0, d |-> 1]
PosInf == [cls |-> "inf", n |-> 1, d |-> 1]
NegInf == [cls |-> "inf", n |-> -1, d |-> 1]

FromInt(i) == Rat(i, 1)
Zero == FromInt(0)

IsFin(x) == x.cls = "fin"
IsInf(x) == x.cls = "inf"
IsNaN(x) == x.cls = "nan"
Sign(x) == IF x.n > 0 THEN 1 ELSE IF x.n < 0 THEN -1 ELSE 0
InfOf(s) == IF s > 0 THEN PosInf ELSE NegInf

Neg(x) == [x EXCEPT !.n = -x.n]

\* f32 addition
Add(x, y) ==
    IF IsNaN(x) \/ IsNaN(y) THEN NaN
    ELSE IF IsInf(x) /\ IsInf(y) THEN (IF x.n = y.n THEN x ELSE NaN)
    ELSE IF IsInf(x) THEN x
    ELSE IF IsInf(y) THEN y
    ELSE Rat(x.n * y.d + y.n * x.d, x.d * y.d)

\* f32 subtraction
Sub(x, y) == Add(x, Neg(y))

\* f32 multiplication: inf * 0 is NaN
Mul(x, y) ==
    IF IsNaN(x) \/ IsNaN(y) THEN NaN
    ELSE IF IsInf(x) \/ IsInf(y)
         THEN (IF Sign(x) = 0 \/ Sign(y) = 0 THEN NaN ELSE InfOf(Sign(x) * Sign(y)))
    ELSE Rat(x.n * y.n, x.d * y.d)

\* f32 division: 0/0 and inf/inf are NaN, x/0 is an infinity of x's sign
\* (the divisors of the code are never negative zero)
Div(x, y) ==
    IF IsNaN(x) \/ IsNaN(y) THEN NaN
    ELSE IF IsInf(x) THEN (IF IsInf(y) THEN NaN
                           ELSE InfOf(x.n * (IF Sign(y) < 0 THEN -1 ELSE 1)))
    ELSE IF IsInf(y) THEN Zero
    ELSE IF y.n = 0 THEN (IF x.n = 0 THEN NaN ELSE InfOf(Sign(x)))
    ELSE Rat(x.n * y.d * Sign(y), x.d * Abs(y.n))

\* Comparison of two values that are not NaN
Less(x, y) ==
    IF IsInf(x) THEN x.n < 0 /\ y # x
    ELSE IF IsInf(y) THEN y.n > 0
    ELSE x.n * y.d < y.n * x.d

\* f32::clamp(0.0, 1.0): NaN stays NaN
Clamp01(x) ==
    IF IsNaN(x) THEN NaN
    ELSE IF Less(x, Zero) THEN Zero
    ELSE IF Less(FromInt(1), x) THEN FromInt(1)
    ELSE x

\* a / b rounded to the nearest integer, b > 0
RoundDiv(a, b) == (2 * a + b) \div (2 * b)

\* The value rounded to the grid of 1/Scale
ToGrid(x) == IF IsFin(x) THEN Rat(RoundDiv(x.n * Scale, x.d), Scale) ELSE x

\* The numerator of a grid value over the denominator Scale
GridN(x) == x.n * (Scale \div x.d)

\* Multiplication and division of grid values, rounded to the grid
FMul(x, y) ==
    IF IsFin(x) /\ IsFin(y)
    THEN Rat(RoundDiv(GridN(x) * GridN(y), Scale), Scale)
    ELSE Mul(x, y)

FDiv(x, y) ==
    IF IsFin(x) /\ IsFin(y) /\ y.n # 0
    THEN Rat(Sign(y) * RoundDiv(GridN(x) * Scale, Abs(GridN(y))), Scale)
    ELSE Div(x, y)

\* ------------------------------------------------------------------------
\* CubicBezierEasing (animation.rs)
\* ------------------------------------------------------------------------

\* constants.rs: the Bezier basis matrix (a symmetric matrix)
BEZIER ==
    << <<-1, 3, -3, 1>>,
       <<3, -6, 3, 0>>,
       <<-3, 3, 0, 0>>,
       <<1, 0, 0, 0>> >>

\* matrix::multiply(&BEZIER, row): the product of the basis and one row of
\* four values
multiply(a, row) ==
    [r \in 1..4 |->
        Add(Add(Mul(FromInt(a[1][r]), row[1]), Mul(FromInt(a[2][r]), row[2])),
            Add(Mul(FromInt(a[3][r]), row[3]), Mul(FromInt(a[4][r]), row[4])))]

\* CubicBezierEasing::new(x1, y1, x2, y2), the control points in hundredths
CubicBezierEasing_new(x1, y1, x2, y2) ==
    LET gx == multiply(BEZIER, <<Zero, Rat(x1, 100), Rat(x2, 100), FromInt(1)>>)
        gy == multiply(BEZIER, <<Zero, Rat(y1, 100), Rat(y2, 100), FromInt(1)>>)
    IN  [cx |-> [i \in 1..4 |-> ToGrid(gx[i])],
         cy |-> [i \in 1..4 |-> ToGrid(gy[i])]]

\* CubicBezierEasing::plug
plug(c, t) ==
    Add(FMul(Add(FMul(Add(FMul(c[1], t), c[2]), t), c[3]), t), c[4])

\* The number of Newton iterations of eval
NewtonIterations == 5

\* One iteration of the loop of eval
NewtonStep(cx, x, t) ==
    LET x_t == plug(cx, t)
        dx == Add(FMul(Add(FMul(FMul(FromInt(3), cx[1]), t),
                           FMul(FromInt(2), cx[2])), t), cx[3])
    IN  Clamp01(Sub(t, FDiv(Sub(x_t, x), dx)))

RECURSIVE Newton(_, _, _, _)
Newton(cx, x, t, k) ==
    IF k = 0 THEN t ELSE Newton(cx, x, NewtonStep(cx, x, t), k - 1)

\* CubicBezierEasing::eval
eval(func, x) ==
    LET xg == ToGrid(x)
        t == Newton(func.cx, xg, Clamp01(xg), NewtonIterations)
    IN  plug(func.cy, t)

\* EASING_FUNCTIONS
EASING_FUNCTIONS ==
    [name \in {"easeInCubic", "easeOutCubic", "easeInExpo", "easeOutExpo"} |->
        CASE name = "easeInCubic" -> CubicBezierEasing_new(33, 0, 68, 100)
          [] name = "easeOutCubic" -> CubicBezierEasing_new(33, 100, 68, 100)
          [] name = "easeInExpo" -> CubicBezierEasing_new(70, 0, 84, 0)
          [] name = "easeOutExpo" -> CubicBezierEasing_new(16, 100, 30, 100)]

\* ------------------------------------------------------------------------
\* Commands (parser.rs, enum Command) and the inputs the model draws.
\* ------------------------------------------------------------------------

Knobs == {"k1", "k2"}
ListNames == {"A", "B"}
FrameArgs == 0..MaxFrames
Vals == {0, MaxVal}

\* Easing arguments: absent, a built-in curve, an unknown name
EasingArgs == {"none", "easeInCubic", "bounce"}

VaryKnobCmds ==
    [kind : {"VaryKnob"}, knob : Knobs, start_frame : FrameArgs,
     end_frame : FrameArgs, start_val : Vals, end_val : Vals,
     easing : EasingArgs]

SaveKnobListCmds == [kind : {"SaveKnobList"}, name : ListNames]

TweenCmds ==
    [kind : {"Tween"}, start_frame : FrameArgs, end_frame : FrameArgs,
     knoblist0 : ListNames, knoblist1 : ListNames, easing : EasingArgs]

SetFramesCmds == [kind : {"SetFrames"}, num_frames : 0..MaxFrames]

SetBaseNameCmds == [kind : {"SetBaseName"}, name : {"test"}]

\* Commands neither pass looks at
OtherCmds ==
    {[kind |-> "Push"], [kind |-> "SetKnob", name |-> "k1", value |-> 2],
     [kind |-> "SetAllKnobs", value |-> 2]}

\* Ok(()) of evaluate_commands
RunOk == [tag |-> "Ok"]

\* Option<String>: "none" stands for None
IsSome(o) == o # "none"

\* ------------------------------------------------------------------------
\* first_pass (animation.rs)
\* ------------------------------------------------------------------------

\* The locals of first_pass before the loop
FirstPassLocals ==
    [frames |-> 0, basename |-> "", contains_frames |-> FALSE,
     contains_vary |-> FALSE, contains_basename |-> FALSE,
     contains_tween |-> FALSE]

\* One iteration of the loop of first_pass
FirstPassCommand(l, c) ==
    CASE c.kind = "SetBaseName" ->
            [l EXCEPT !.basename = c.name, !.contains_basename = TRUE]
      [] c.kind = "Tween" -> [l EXCEPT !.contains_tween = TRUE]
      [] c.kind = "SetFrames" ->
            [l EXCEPT !.frames = c.num_frames, !.contains_frames = TRUE]
      [] c.kind = "VaryKnob" -> [l EXCEPT !.contains_vary = TRUE]
      [] OTHER -> l

RECURSIVE FirstPassLoop(_, _, _)
FirstPassLoop(l, cmds, i) ==
    IF i > Len(cmds) THEN l
    ELSE FirstPassLoop(FirstPassCommand(l, cmds[i]), cmds, i + 1)

\* FirstPassResult with the tween flag left out of the test
FirstPassResult_NoTween(l) ==
    IF (l.contains_vary \/ l.contains_basename) /\ ~l.contains_frames
    THEN [err |-> "MissingFrameCount", frames |-> 0, basename |-> ""]
    ELSE IF l.contains_frames /\ ~l.contains_basename
    THEN [err |-> "none", frames |-> l.frames, basename |-> "frame"]
    ELSE [err |-> "none", frames |-> l.frames, basename |-> l.basename]

\* The result of first_pass once the loop has run
FirstPassResult(l) ==
    IF (l.contains_vary \/ l.contains_tween \/ l.contains_basename)
       /\ ~l.contains_frames
    THEN [err |-> "MissingFrameCount", frames |-> 0, basename |-> ""]
    ELSE IF l.contains_frames /\ ~l.contains_basename
    THEN [err |-> "none", frames |-> l.frames, basename |-> "frame"]
    ELSE [err |-> "none", frames |-> l.frames, basename |-> l.basename]

first_pass(cmds) == FirstPassResult(FirstPassLoop(FirstPassLocals, cmds, 1))

\* ------------------------------------------------------------------------
\* second_pass (animation.rs)
\* ------------------------------------------------------------------------

\* HashMap::new() and HashMap::insert
EmptyMap == [k \in {} |-> Zero]
Insert(m, k, v) == [x \in (DOMAIN m) \cup {k} |-> IF x = k THEN v ELSE m[x]]

\* vec![HashMap::new(); frames], indexed from 0
NewFrameKnobs(n) == [f \in 0..(n - 1) |-> EmptyMap]

\* FrameRangeError without the test for an inverted range
FrameRangeError_NoInverted(c, n) == c.start_frame >= n \/ c.end_frame >= n

\* The range checks of a vary or tween directive
FrameRangeError(c, n) ==
    \/ c.start_frame >= n \/ c.end_frame >= n
    \/ c.start_frame > c.end_frame

\* The loop over the frames of one knob, from frame on: each iteration
\* computes x, looks the easing up and inserts the value
RECURSIVE InterpolateFrames(_, _, _, _, _, _, _)
InterpolateFrames(fk, knob, c, start_val, delta, easing, frame) ==
    IF frame > c.end_frame THEN [err |-> "none", fk |-> fk]
    ELSE LET x == Add(start_val, Mul(delta, FromInt(frame - c.start_frame)))
         IN  IF IsSome(easing)
             THEN IF easing \in DOMAIN EASING_FUNCTIONS
                  THEN InterpolateFrames(
                          [fk EXCEPT ![frame] =
                              Insert(@, knob, eval(EASING_FUNCTIONS[easing], x))],
                          knob, c, start_val, delta, easing, frame + 1)
                  ELSE [err |-> "UndefinedEasing", fk |-> fk]
             ELSE InterpolateFrames([fk EXCEPT ![frame] = Insert(@, knob, x)],
                                    knob, c, start_val, delta, easing, frame + 1)

\* Command::VaryKnob
VaryKnob(fk, c, n) ==
    IF FrameRangeError(c, n) THEN [err |-> "FrameRange", fk |-> fk]
    ELSE LET num_frames == FromInt(c.end_frame - c.start_frame)
             delta == Div(Sub(FromInt(c.end_val), FromInt(c.start_val)), num_frames)
         IN  InterpolateFrames(fk, c.knob, c, FromInt(c.start_val), delta,
                               c.easing, c.start_frame)

\* SaveKnobList storing the map of the last frame instead of frame 0
SaveKnobList_LastFrame(fk, saved, c) ==
    IF DOMAIN fk # {}
    THEN [x \in (DOMAIN saved) \cup {c.name} |->
            IF x = c.name THEN fk[Cardinality(DOMAIN fk) - 1] ELSE saved[x]]
    ELSE saved

\* Command::SaveKnobList
SaveKnobList(fk, saved, c) ==
    IF DOMAIN fk # {}
    THEN [x \in (DOMAIN saved) \cup {c.name} |->
            IF x = c.name THEN fk[0] ELSE saved[x]]
    ELSE saved

\* unwrap_or(&0.0)
GetOr0(m, k) == IF k \in DOMAIN m THEN m[k] ELSE Zero

\* The loop over all_knobs of a tween
RECURSIVE TweenKnobs(_, _, _, _, _)
TweenKnobs(fk, all_knobs, c, knobs0, knobs1) ==
    IF all_knobs = {} THEN [err |-> "none", fk |-> fk]
    ELSE LET knob == CHOOSE k \in all_knobs : TRUE
             start_val == GetOr0(knobs0, knob)
             end_val == GetOr0(knobs1, knob)
             num_frames == FromInt(c.end_frame - c.start_frame)
             delta == Div(Sub(end_val, start_val), num_frames)
             r == InterpolateFrames(fk, knob, c, start_val, delta, c.easing,
                                    c.start_frame)
         IN  IF r.err # "none" THEN r
             ELSE TweenKnobs(r.fk, all_knobs \ {knob}, c, knobs0, knobs1)

\* Tween taking a snapshot that was never saved for an empty one
Tween_MissingIsEmpty(fk, saved, c, n) ==
    IF FrameRangeError(c, n) THEN [err |-> "FrameRange", fk |-> fk]
    ELSE LET knobs0 == IF c.knoblist0 \in DOMAIN saved THEN saved[c.knoblist0]
                       ELSE EmptyMap
             knobs1 == IF c.knoblist1 \in DOMAIN saved THEN saved[c.knoblist1]
                       ELSE EmptyMap
         IN  TweenKnobs(fk, (DOMAIN knobs0) \cup (DOMAIN knobs1), c, knobs0, knobs1)

\* Command::Tween
Tween(fk, saved, c, n) ==
    IF FrameRangeError(c, n) THEN [err |-> "FrameRange", fk |-> fk]
    ELSE IF c.knoblist0 \notin DOMAIN saved \/ c.knoblist1 \notin DOMAIN saved
    THEN [err |-> "UndefinedKnobList", fk |-> fk]
    ELSE LET knobs0 == saved[c.knoblist0]
             knobs1 == saved[c.knoblist1]
         IN  TweenKnobs(fk, (DOMAIN knobs0) \cup (DOMAIN knobs1), c, knobs0, knobs1)

\* The whole of second_pass over a command list: the loop, then Ok
RECURSIVE SecondPassLoop(_, _, _, _, _)
SecondPassLoop(fk, saved, cmds, i, n) ==
    IF i > Len(cmds) THEN [err |-> "none", fk |-> fk]
    ELSE LET c == cmds[i]
         IN  CASE c.kind = "VaryKnob" ->
                    LET r == VaryKnob(fk, c, n)
                    IN  IF r.err # "none" THEN r
                        ELSE SecondPassLoop(r.fk, saved, cmds, i + 1, n)
               [] c.kind = "SaveKnobList" ->
                    SecondPassLoop(fk, SaveKnobList(fk, saved, c), cmds, i + 1, n)
               [] c.kind = "Tween" ->
                    LET r == Tween(fk, saved, c, n)
                    IN  IF r.err # "none" THEN r
                        ELSE SecondPassLoop(r.fk, saved, cmds, i + 1, n)
               [] OTHER -> SecondPassLoop(fk, saved, cmds, i + 1, n)

second_pass(cmds, n) == SecondPassLoop(NewFrameKnobs(n), EmptyMap, cmds, 1, n)

\* ------------------------------------------------------------------------
\* Scene geometry: homogeneous points with integer coordinates, 4x4
\* transforms, the coordinate stack
\* ------------------------------------------------------------------------

\* constants.rs
ENABLE_BACK_FACE_CULLING == TRUE
DEFAULT_SHADING_MODE == "Flat"
ShadingModes == {"Wireframe", "FlatRandom", "Flat", "Gouraud", "Phong"}

\* matrix::identity and matrix::dilation
Identity == <<<<1, 0, 0, 0>>, <<0, 1, 0, 0>>, <<0, 0, 1, 0>>, <<0, 0, 0, 1>>>>
dilation(a, b, c) ==
    <<<<a, 0, 0, 0>>, <<0, b, 0, 0>>, <<0, 0, c, 0>>, <<0, 0, 0, 1>>>>

Dot4(r, p) == r[1] * p[1] + r[2] * p[2] + r[3] * p[3] + r[4] * p[4]
Column(b, j) == [k \in 1..4 |-> b[k][j]]

\* matrix::multiply(a, m): every point of m is replaced by a * point
TransformPoints(a, m) ==
    [i \in 1..Len(m) |-> [r \in 1..4 |-> Dot4(a[r], m[i])]]

\* The product of two transforms
MatMul(a, b) == [i \in 1..4 |-> [j \in 1..4 |-> Dot4(a[i], Column(b, j))]]

\* The vector helpers.  normalize_vector is given for the vectors along an
\* axis, whose unit vector has whole coordinates.
subtract_vectors(a, b) == <<a[1] - b[1], a[2] - b[2], a[3] - b[3]>>
dot_product(a, b) == a[1] * b[1] + a[2] * b[2] + a[3] * b[3]
cross_product(a, b) ==
    <<a[2] * b[3] - a[3] * b[2], a[3] * b[1] - a[1] * b[3], a[1] * b[2] - a[2] * b[1]>>
UnitOf(x) == IF x > 0 THEN 1 ELSE IF x < 0 THEN -1 ELSE 0
normalize_vector(v) ==
    CASE Cardinality({i \in 1..3 : v[i] # 0}) = 1 ->
             <<UnitOf(v[1]), UnitOf(v[2]), UnitOf(v[3])>>

\* CoordinateStack::new, peek, apply_transformation
CoordinateStack_new == <<Identity>>
peek(stack) == stack[Len(stack)]
apply_transformation(stack, t) ==
    [stack EXCEPT ![Len(stack)] = MatMul(stack[Len(stack)], t)]

\* CoordinateStack::push duplicates the top; CoordinateStack::pop removes the
\* top unless it is the only element
push(stack) == Append(stack, peek(stack))
pop(stack) == IF Len(stack) > 1 THEN SubSeq(stack, 1, Len(stack) - 1) ELSE stack

\* add_polygon: three points with w = 1 appended to the polygon list
add_polygon(m, p) ==
    m \o <<<<p[1][1], p[1][2], p[1][3], 1>>, <<p[2][1], p[2][2], p[2][3], 1>>,
           <<p[3][1], p[3][2], p[3][3], 1>>>>

\* constants::CUBE: the twelve triangles of a box as indices into its eight
\* vertices (counted from 0)
CUBE ==
    <<<<0, 2, 1>>, <<0, 3, 2>>, <<4, 1, 5>>, <<4, 0, 1>>, <<7, 0, 4>>, <<7, 3, 0>>,
      <<6, 3, 7>>, <<6, 2, 3>>, <<5, 2, 6>>, <<5, 1, 2>>, <<7, 5, 6>>, <<7, 4, 5>>>>

\* The vertices of add_box, the first of them at index 0 of the source
BoxVertices(x, y, z, w, h, d) ==
    <<<<x, y, z>>, <<x + w, y, z>>, <<x + w, y - h, z>>, <<x, y - h, z>>,
      <<x, y, z - d>>, <<x + w, y, z - d>>, <<x + w, y - h, z - d>>,
      <<x, y - h, z - d>>>>

RECURSIVE AddCube(_, _, _)
\* The loop of add_box from the i-th triangle of CUBE on
AddCube(m, vertices, i) ==
    IF i > Len(CUBE) THEN m
    ELSE AddCube(add_polygon(m, <<vertices[CUBE[i][1] + 1], vertices[CUBE[i][2] + 1],
                                  vertices[CUBE[i][3] + 1]>>),
                 vertices, i + 1)

\* add_box whose box extends upwards from y
add_box_Up(m, x, y, z, w, h, d) == AddCube(m, BoxVertices(x, y, z, w, 0 - h, d), 1)

\* polygon_list::add_box
add_box(m, x, y, z, w, h, d) == AddCube(m, BoxVertices(x, y, z, w, h, d), 1)

\* Two triangles of the same three vertices: Front is counter-clockwise seen
\* from +z, Back is clockwise
Front == <<<<0, 0, 0>>, <<2, 0, 0>>, <<0, 2, 0>>>>
Back == <<<<0, 0, 0>>, <<0, 2, 0>>, <<2, 0, 0>>>>

\* normal[2] of the cross product of the edges p1 - p0 and p2 - p0
NormalZ(polygon) ==
    (polygon[2][1] - polygon[1][1]) * (polygon[3][2] - polygon[1][2])
    - (polygon[2][2] - polygon[1][2]) * (polygon[3][1] - polygon[1][1])

\* m.chunks(3)
Chunks(m) == [i \in 1..(Len(m) \div 3) |-> SubSeq(m, 3 * i - 2, 3 * i)]

\* A triangle sent to the framebuffer: the drawing routine that plots it
\* (a shading mode of render_polygons, or "Texture") and its three points
RasterOp(shading, polygon) == [shading |-> shading, polygon |-> polygon]

\* The cross product of the edges p1 - p0 and p2 - p0 of a triangle
FaceNormal(polygon) ==
    cross_product(subtract_vectors(polygon[2], polygon[1]),
                  subtract_vectors(polygon[3], polygon[1]))

\* vector_to_key: the coordinates rounded to whole numbers, which the points
\* of this model are
vector_to_key(vertex) == <<vertex[1], vertex[2], vertex[3]>>

RECURSIVE SqrtBetween(_, _, _)
\* The largest r in lo..hi with r * r <= n
SqrtBetween(n, lo, hi) ==
    IF lo >= hi THEN lo
    ELSE LET mid == (lo + hi + 1) \div 2
         IN  IF mid * mid <= n THEN SqrtBetween(n, mid, hi)
             ELSE SqrtBetween(n, lo, mid - 1)

\* The vectors of the vertex normals: three numerators over Scale.
\* normalize_vector on them is rounded to that grid, as the f32 result is
\* rounded; it is given for vectors that have a length.
GridVector(v) == <<v[1] * Scale, v[2] * Scale, v[3] * Scale>>
add_vectors(a, b) == <<a[1] + b[1], a[2] + b[2], a[3] + b[3]>>
GridLength(v) == SqrtBetween(dot_product(v, v), 0, Abs(v[1]) + Abs(v[2]) + Abs(v[3]))
GridNormalize(v) ==
    CASE GridLength(v) > 0 ->
             <<RoundDiv(v[1] * Scale, GridLength(v)), RoundDiv(v[2] * Scale, GridLength(v)),
               RoundDiv(v[3] * Scale, GridLength(v))>>

\* One triangle of the pre-pass: its normal is added to the entry of each of
\* its three vertices, then every entry of the map is normalized
PrePassTriangle(vertex_normals, polygon) ==
    LET normal == GridVector(FaceNormal(polygon))
        entry(vn, vertex) ==
            IF vector_to_key(vertex) \in DOMAIN vn THEN vn[vector_to_key(vertex)]
            ELSE <<0, 0, 0>>
        add(vn, vertex) ==
            Insert(vn, vector_to_key(vertex), add_vectors(entry(vn, vertex), normal))
        summed == add(add(add(vertex_normals, polygon[1]), polygon[2]), polygon[3])
    IN  [key \in DOMAIN summed |-> GridNormalize(summed[key])]

RECURSIVE PrePassLoop(_, _, _)
PrePassLoop(vertex_normals, m, i) ==
    IF i > Len(Chunks(m)) THEN vertex_normals
    ELSE PrePassLoop(PrePassTriangle(vertex_normals, Chunks(m)[i]), m, i + 1)

\* The map vertex_normals after the pre-pass: empty unless the mode is
\* Gouraud or Phong
PrePass(m, shading_mode) ==
    IF shading_mode \in {"Gouraud", "Phong"}
    THEN PrePassLoop([k \in {} |-> <<0, 0, 0>>], m, 1)
    ELSE [k \in {} |-> <<0, 0, 0>>]

\* The call that plots a triangle: the routines of Gouraud and Phong get the
\* normals of the three vertices from the map
TriangleOp(shading_mode, polygon, vertex_normals) ==
    IF shading_mode \in {"Gouraud", "Phong"}
    THEN [shading |-> shading_mode, polygon |-> polygon,
          normals |-> [i \in 1..3 |-> vertex_normals[vector_to_key(polygon[i])]]]
    ELSE RasterOp(shading_mode, polygon)

\* render_polygons of a build whose constant ENABLE_BACK_FACE_CULLING has
\* the value culling
render_polygons_built(m, shading_mode, culling) ==
    {TriangleOp(shading_mode, Chunks(m)[i], PrePass(m, shading_mode)) :
        i \in {j \in DOMAIN Chunks(m) : NormalZ(Chunks(m)[j]) > 0 /\ culling}}

\* polygon_list::render_polygons: the triangles it plots
render_polygons(m, shading_mode) ==
    render_polygons_built(m, shading_mode, ENABLE_BACK_FACE_CULLING)

\* texture::render_textured_polygon: the triangle is sorted by y and filled
\* scanline by scanline, whatever its normal
render_textured_polygon(polygon) == {RasterOp("Texture", polygon)}

\* ------------------------------------------------------------------------
\* The executor's rendering helpers (run_script.rs, impl ScriptContext)
\* ------------------------------------------------------------------------

\* A lookup of an optional symbol name that panics: the name is not in the
\* table, or is bound to a symbol of another kind
SymbolPanic(symbols, name, kind) ==
    IsSome(name) /\ (name \notin DOMAIN symbols \/ symbols[name].kind # kind)

\* The polygon list of the context ctx taken to view space: the named
\* coordinate system or the top of the coordinate stack, then the camera matrix
ToView(ctx, coord_system) ==
    TransformPoints(ctx.camera_matrix,
        IF IsSome(coord_system)
        THEN TransformPoints(ctx.symbols[coord_system].transform, ctx.polygons)
        ELSE TransformPoints(peek(ctx.coordinate_stack), ctx.polygons))

\* render_polygons that leaves the transformed triangles in the polygon list
ScriptContext_render_polygons_Keep(ctx, constants, coord_system) ==
    IF SymbolPanic(ctx.symbols, constants, "Constants")
       \/ SymbolPanic(ctx.symbols, coord_system, "CoordSystem")
    THEN [panic |-> TRUE, ops |-> {}, polygons |-> ctx.polygons]
    ELSE [panic |-> FALSE,
          ops |-> render_polygons(ToView(ctx, coord_system), ctx.shading_mode),
          polygons |-> ToView(ctx, coord_system)]

\* ScriptContext::render_polygons: whether it panics, what it plots, and the
\* polygon list it leaves
ScriptContext_render_polygons(ctx, constants, coord_system) ==
    IF SymbolPanic(ctx.symbols, constants, "Constants")
       \/ SymbolPanic(ctx.symbols, coord_system, "CoordSystem")
    THEN [panic |-> TRUE, ops |-> {}, polygons |-> ctx.polygons]
    ELSE [panic |-> FALSE,
          ops |-> render_polygons(ToView(ctx, coord_system), ctx.shading_mode),
          polygons |-> <<>>]

\* edge_list::add_edge: two points with w = 1 appended to the edge list
add_edge(m, p0, p1) ==
    m \o <<<<p0[1], p0[2], p0[3], 1>>, <<p1[1], p1[2], p1[3], 1>>>>

\* edge_list::render_edges: the lines it plots, one per pair of points
RasterLine(p0, p1) == [shading |-> "Line", edge |-> <<p0, p1>>]
render_edges(m) == {RasterLine(m[2 * i - 1], m[2 * i]) : i \in 1..(Len(m) \div 2)}

\* ScriptContext::render_edges: what it plots and the edge list it leaves
ScriptContext_render_edges(ctx) ==
    [ops |-> render_edges(TransformPoints(peek(ctx.coordinate_stack), ctx.edges)),
     edges |-> <<>>]

\* ScriptContext::render_textured_polygons: one triangle per entry of
\* polygon_info; the slice, the material lookup and point_lights[0] panic
\* when there is nothing to take
ScriptContext_render_textured_polygons(ctx, polygon_info, mtls, coord_system) ==
    IF SymbolPanic(ctx.symbols, coord_system, "CoordSystem")
    THEN [panic |-> TRUE, ops |-> {}, polygons |-> ctx.polygons]
    ELSE LET view == ToView(ctx, coord_system)
             bad == {i \in 1..Len(polygon_info) :
                        \/ 3 * i > Len(view)
                        \/ polygon_info[i] \notin mtls
                        \/ ctx.point_lights = 0}
             done == {i \in 1..Len(polygon_info) : \A b \in bad : i < b}
         IN  [panic |-> bad # {},
              ops |-> UNION {render_textured_polygon(Chunks(view)[i]) : i \in done},
              polygons |-> IF bad # {} THEN view ELSE <<>>]

\* ------------------------------------------------------------------------
\* Mesh files and the mesh loader
\* ------------------------------------------------------------------------

Paths == {"a.obj", "b.obj"}

\* What a path holds: nothing, or triangles, with or without a material
\* library.  bound is the number of faces that follow the mtllib line: the
\* loader records a material binding for a face only when the library has
\* been named before the face is read.
MissingFile == [exists |-> FALSE]
MeshFile(triangles, mtllib) ==
    [exists |-> TRUE, triangles |-> triangles, mtllib |-> mtllib,
     bound |-> IF mtllib THEN Len(triangles) ELSE 0]

\* A file whose mtllib line follows its faces
LateMtllib(triangles) ==
    [exists |-> TRUE, triangles |-> triangles, mtllib |-> TRUE, bound |-> 0]
MeshFiles ==
    {MissingFile, MeshFile(<<>>, FALSE), MeshFile(<<Back>>, FALSE),
     MeshFile(<<Front, Back>>, TRUE)}

RECURSIVE LoadPolygons(_, _, _)
LoadPolygons(m, triangles, i) ==
    IF i > Len(triangles) THEN m
    ELSE LoadPolygons(add_polygon(m, triangles[i]), triangles, i + 1)

\* handle_mesh(&mut polygons, &file_path): the triangles of the file appended
\* to the polygon list and, for a file with a material library, one material
\* name per face read after the mtllib line and the material table
handle_mesh(polygons, file) ==
    IF ~file.exists
    THEN [err |-> "MeshError", polygons |-> polygons, textured |-> FALSE,
          polygon_info |-> <<>>, mtls |-> {}]
    ELSE [err |-> "none",
          polygons |-> LoadPolygons(polygons, file.triangles, 1),
          textured |-> file.mtllib,
          polygon_info |-> [i \in 1..file.bound |-> "mtl"],
          mtls |-> IF file.mtllib THEN {"mtl"} ELSE {}]

\* enum CachedMesh
NoTexture(polygons) == [kind |-> "NoTexture", polygons |-> polygons]
Texture(polygons, polygon_info, mtls) ==
    [kind |-> "Texture", polygons |-> polygons, polygon_info |-> polygon_info,
     mtls |-> mtls]

\* ------------------------------------------------------------------------
\* State
\* ------------------------------------------------------------------------

VARIABLES
    \* pass 1, run as a function of a command list
    commands,       \* the command list given to first_pass
    first_result,   \* what first_pass returned
    \* pass 2, one loop iteration at a time
    frames,         \* the frame count given to second_pass
    command,        \* the loop variable: the command read last
    consumed,       \* the number of commands read so far
    frame_knobs,    \* the local frame_knobs
    saved_knobs,    \* the local saved_knobs
    saved_names,    \* history: the names of the save_knobs directives read so far
    second_result,  \* what second_pass returned, or that it is still running
    \* a script run: evaluate_commands and the ScriptContext it works on
    files,            \* the mesh file behind each path
    pc,               \* where evaluate_commands stands
    frame_knob_list,  \* what second_pass returned to evaluate_commands
    frame,            \* the frame being rendered
    ip,               \* the position of the next command in the list
    picture,          \* the triangles sent to the framebuffer since it was reset
    edges,
    polygons,
    coordinate_stack,
    marks,            \* history: the stack as it was before each push not yet popped
    shading_mode,
    point_lights,     \* the number of point lights of lighting_config
    camera_matrix,
    symbols,
    mesh_cache,
    gif,              \* the frames added to the animation
    load_count,       \* history: the calls of handle_mesh per path
    callers,          \* the calls of evaluate_commands waiting for a composite
    io,               \* history: the calls of display and save_as_file
    run_result        \* what evaluate_commands returned, or that it is running

pass1Vars == <<commands, first_result>>
pass2Vars == <<frames, command, consumed, frame_knobs, saved_knobs, saved_names,
               second_result>>
contextVars == <<picture, edges, polygons, coordinate_stack, marks, shading_mode,
                 point_lights, camera_matrix, symbols, mesh_cache>>
controlVars == <<files, pc, frame_knob_list, frame, ip, gif, load_count, callers, io,
                 run_result>>
runVars == <<contextVars, controlVars>>
vars == <<pass1Vars, pass2Vars, runVars>>

NotRun == [err |-> "not run"]
NoCommand == [kind |-> "none"]
Running == [tag |-> "running"]
Ok(maps) == [tag |-> "Ok", maps |-> maps]
Err(kind) == [tag |-> "Err", err |-> kind]

Panic == [tag |-> "panic"]
StackOverflow == [tag |-> "stack overflow"]

\* ScriptContext::new
ScriptContext_new ==
    /\ picture = {}
    /\ edges = <<>>
    /\ polygons = <<>>
    /\ coordinate_stack = CoordinateStack_new
    /\ marks = <<>>
    /\ shading_mode = DEFAULT_SHADING_MODE
    /\ point_lights = 1
    /\ camera_matrix = Identity
    /\ symbols = EmptyMap
    /\ mesh_cache = EmptyMap

\* The ScriptContext as a value
Context ==
    [edges |-> edges, polygons |-> polygons, coordinate_stack |-> coordinate_stack,
     shading_mode |-> shading_mode, point_lights |-> point_lights,
     camera_matrix |-> camera_matrix, symbols |-> symbols]

\* The parts of the state a specification does not use
RunIdle ==
    /\ ScriptContext_new
    /\ files = [p \in Paths |-> MissingFile]
    /\ pc = "idle" /\ frame_knob_list = NewFrameKnobs(0) /\ frame = 0 /\ ip = 0
    /\ gif = <<>> /\ load_count = [p \in Paths |-> 0] /\ run_result = Running
    /\ callers = <<>> /\ io = {}
Pass1Idle == commands = <<>> /\ first_result = NotRun
Pass2Idle ==
    /\ frames = 0 /\ command = NoCommand /\ consumed = 0
    /\ frame_knobs = NewFrameKnobs(0) /\ saved_knobs = EmptyMap
    /\ saved_names = {} /\ second_result = Running

\* ------------------------------------------------------------------------
\* Pass 1 as a function of its input
\* ------------------------------------------------------------------------

FirstPassCmds ==
    SetFramesCmds \cup SetBaseNameCmds \cup OtherCmds
    \cup {c \in VaryKnobCmds : c.knob = "k1" /\ c.start_frame = 0 /\ c.end_frame = 0
                               /\ c.start_val = 0 /\ c.end_val = 0 /\ c.easing = "none"}
    \cup {c \in TweenCmds : c.start_frame = 0 /\ c.end_frame = 0 /\ c.knoblist0 = "A"
                            /\ c.knoblist1 = "A" /\ c.easing = "none"}
    \cup {c \in SaveKnobListCmds : c.name = "A"}

CommandLists == UNION {[1..k -> FirstPassCmds] : k \in 0..MaxList}

InitFirstPass ==
    /\ commands \in CommandLists
    /\ first_result = NotRun
    /\ Pass2Idle
    /\ RunIdle

FirstPass ==
    /\ first_result = NotRun
    /\ first_result' = first_pass(commands)
    /\ UNCHANGED <<commands, pass2Vars, runVars>>

SpecFirstPass == InitFirstPass /\ [][FirstPass]_vars

\* ------------------------------------------------------------------------
\* Pass 2, one command at a time.  second_pass is entered with a nonzero
\* frame count only (evaluate_commands, run_script.rs).
\* ------------------------------------------------------------------------

InitSecondPass ==
    /\ Pass1Idle
    /\ RunIdle
    /\ frames \in 1..MaxFrames
    /\ command = NoCommand
    /\ consumed = 0
    /\ frame_knobs = NewFrameKnobs(frames)
    /\ saved_knobs = EmptyMap
    /\ saved_names = {}
    /\ second_result = Running

AllCmds ==
    VaryKnobCmds \cup SaveKnobListCmds \cup TweenCmds \cup OtherCmds
    \cup SetFramesCmds \cup SetBaseNameCmds

\* for command in commands: the next command of the list is bound to the
\* loop variable
NextCommand ==
    /\ second_result = Running
    /\ command = NoCommand
    /\ consumed < MaxCmds
    /\ command' \in AllCmds
    /\ consumed' = consumed + 1
    /\ UNCHANGED <<pass1Vars, runVars, frames, frame_knobs, saved_knobs, saved_names,
                   second_result>>

\* What a directive that can fail leaves behind: an early return keeps the
\* loop variable, a completed iteration releases it
Directive(r) ==
    /\ frame_knobs' = r.fk
    /\ second_result' = IF r.err = "none" THEN Running ELSE Err(r.err)
    /\ command' = IF r.err = "none" THEN NoCommand ELSE command

StepVaryKnob ==
    /\ second_result = Running
    /\ command.kind = "VaryKnob"
    /\ Directive(VaryKnob(frame_knobs, command, frames))
    /\ UNCHANGED <<pass1Vars, runVars, frames, consumed, saved_knobs, saved_names>>

StepSaveKnobList ==
    /\ second_result = Running
    /\ command.kind = "SaveKnobList"
    /\ saved_knobs' = SaveKnobList(frame_knobs, saved_knobs, command)
    /\ saved_names' = saved_names \cup {command.name}
    /\ command' = NoCommand
    /\ UNCHANGED <<pass1Vars, runVars, frames, consumed, frame_knobs, second_result>>

StepTween ==
    /\ second_result = Running
    /\ command.kind = "Tween"
    /\ Directive(Tween(frame_knobs, saved_knobs, command, frames))
    /\ UNCHANGED <<pass1Vars, runVars, frames, consumed, saved_knobs, saved_names>>

\* A pass 2 that gives the value of a set command to the knob in every frame
StepOther_SetKnob ==
    /\ second_result = Running
    /\ command.kind \notin {"none", "VaryKnob", "SaveKnobList", "Tween"}
    /\ command' = NoCommand
    /\ frame_knobs' =
           IF command.kind = "SetKnob"
           THEN [f \in DOMAIN frame_knobs |->
                    Insert(frame_knobs[f], command.name, FromInt(command.value))]
           ELSE frame_knobs
    /\ UNCHANGED <<pass1Vars, runVars, frames, consumed, saved_knobs,
                   saved_names, second_result>>

StepOther ==
    /\ second_result = Running
    /\ command.kind \notin {"none", "VaryKnob", "SaveKnobList", "Tween"}
    /\ command' = NoCommand
    /\ UNCHANGED <<pass1Vars, runVars, frames, consumed, frame_knobs, saved_knobs,
                   saved_names, second_result>>

\* The end of the command list: Ok(frame_knobs)
ReturnOk ==
    /\ second_result = Running
    /\ command = NoCommand
    /\ second_result' = Ok(frame_knobs)
    /\ UNCHANGED <<pass1Vars, runVars, frames, command, consumed, frame_knobs, saved_knobs,
                   saved_names>>

NextSecondPass ==
    \/ NextCommand
    \/ StepVaryKnob
    \/ StepSaveKnobList
    \/ StepTween
    \/ StepOther
    \/ ReturnOk

SpecSecondPass == InitSecondPass /\ [][NextSecondPass]_vars

\* ------------------------------------------------------------------------
\* A script run: evaluate_commands and execute_command (run_script.rs), one
\* command at a time
\* ------------------------------------------------------------------------

MeshCmds ==
    [kind : {"Mesh"}, constants : {"none"}, file_path : Paths,
     coord_system : {"none"}]

\* A triangle drawn in place, or in a coordinate system no command saved
PolygonCmds ==
    [kind : {"Polygon"}, constants : {"none"}, polygon : {Front, Back},
     coord_system : {"none", "cs"}]

SetShadingCmds == [kind : {"SetShading"}, shading_mode : ShadingModes]

\* A mirror in x.  Without a knob get_knob_value is 1.0 and the factors are
\* the arguments.
ScaleCmds == {[kind |-> "Scale", a |-> -1, b |-> 1, c |-> 1, knob |-> "none"]}

\* The knob k1 driven from 0 in frame 0 to MaxVal in the last frame
RunVaryCmds ==
    {[kind |-> "VaryKnob", knob |-> "k1", start_frame |-> 0,
      end_frame |-> MaxFrames - 1, start_val |-> 0, end_val |-> MaxVal,
      easing |-> "none"]}

\* The top of the stack saved under the name the polygons refer to
SaveCoordSystemCmds == {[kind |-> "SaveCoordSystem", name |-> "cs"]}

RunCmds ==
    MeshCmds \cup PolygonCmds \cup SetShadingCmds \cup ScaleCmds
    \cup RunVaryCmds \cup SaveCoordSystemCmds
    \cup {c \in SetFramesCmds : c.num_frames = MaxFrames}

Scripts == UNION {[1..k -> RunCmds] : k \in 0..MaxScript}

InitRun ==
    /\ commands \in Scripts
    /\ first_result = NotRun
    /\ Pass2Idle
    /\ ScriptContext_new
    /\ files \in [Paths -> MeshFiles]
    /\ pc = "evaluate" /\ frame_knob_list = NewFrameKnobs(0) /\ frame = 0 /\ ip = 0
    /\ gif = <<>> /\ load_count = [p \in Paths |-> 0] /\ run_result = Running
    /\ callers = <<>> /\ io = {}

\* evaluate_commands that runs pass 2 before it looks at the frame count
AfterPasses_Validate(fp, sp) ==
    IF fp.err # "none"
    THEN /\ pc' = "done" /\ run_result' = Err(fp.err)
         /\ UNCHANGED <<frame_knob_list, ip>>
    ELSE IF sp.err # "none"
    THEN /\ pc' = "done" /\ run_result' = Err(sp.err)
         /\ UNCHANGED <<frame_knob_list, ip>>
    ELSE IF fp.frames = 0
    THEN /\ pc' = "still" /\ ip' = 1
         /\ UNCHANGED <<frame_knob_list, run_result>>
    ELSE /\ pc' = "frame" /\ frame_knob_list' = sp.fk
         /\ UNCHANGED <<ip, run_result>>

\* What evaluate_commands does with the results fp of pass 1 and sp of pass 2:
\* an error of pass 1 is returned; without frames the still path is taken and
\* pass 2 is not looked at; an error of pass 2 is returned; otherwise the
\* frame loop starts
AfterPasses(fp, sp) ==
    IF fp.err # "none"
    THEN /\ pc' = "done" /\ run_result' = Err(fp.err)
         /\ UNCHANGED <<frame_knob_list, ip>>
    ELSE IF fp.frames = 0
    THEN /\ pc' = "still" /\ ip' = 1
         /\ UNCHANGED <<frame_knob_list, run_result>>
    ELSE IF sp.err # "none"
    THEN /\ pc' = "done" /\ run_result' = Err(sp.err)
         /\ UNCHANGED <<frame_knob_list, ip>>
    ELSE /\ pc' = "frame" /\ frame_knob_list' = sp.fk
         /\ UNCHANGED <<ip, run_result>>

\* evaluate_commands up to the first command
Evaluate ==
    /\ pc = "evaluate"
    /\ first_result' = first_pass(commands)
    /\ AfterPasses(first_pass(commands),
                   second_pass(commands, first_pass(commands).frames))
    /\ UNCHANGED <<commands, pass2Vars, contextVars, files, frame, gif, load_count, callers, io>>

\* ScriptContext::set_knob
set_knob(table, name, value) == Insert(table, name, [kind |-> "Knob", value |-> value])

\* A symbol table that holds the knobs of the frame and nothing else
SetKnobs_Fresh(table, knobs) ==
    [x \in DOMAIN knobs |-> [kind |-> "Knob", value |-> knobs[x]]]

\* set_knob for every knob of a frame's map
SetKnobs(table, knobs) ==
    [x \in (DOMAIN table) \cup (DOMAIN knobs) |->
        IF x \in DOMAIN knobs THEN [kind |-> "Knob", value |-> knobs[x]]
        ELSE table[x]]

\* A frame start that drops the knobs the map of the frame does not bind
FrameStart_ResetKnobs ==
    /\ pc = "frame"
    /\ frame < first_result.frames
    /\ picture' = {}
    /\ edges' = <<>>
    /\ polygons' = <<>>
    /\ coordinate_stack' = CoordinateStack_new
    /\ marks' = <<>>
    /\ symbols' = SetKnobs([x \in {y \in DOMAIN symbols : symbols[y].kind # "Knob"}
                               |-> symbols[x]],
                           frame_knob_list[frame])
    /\ ip' = 1
    /\ pc' = "replay"
    /\ UNCHANGED <<pass1Vars, pass2Vars, shading_mode, point_lights, camera_matrix,
                   mesh_cache, files, frame_knob_list, frame, gif, load_count, callers, io,
                   run_result>>

\* A frame_reset that leaves a coordinate stack without any matrix
FrameStart_EmptyStack ==
    /\ pc = "frame"
    /\ frame < first_result.frames
    /\ picture' = {}
    /\ edges' = <<>>
    /\ polygons' = <<>>
    /\ coordinate_stack' = <<>>
    /\ marks' = <<>>
    /\ symbols' = SetKnobs(symbols, frame_knob_list[frame])
    /\ ip' = 1
    /\ pc' = "replay"
    /\ UNCHANGED <<pass1Vars, pass2Vars, shading_mode, point_lights, camera_matrix,
                   mesh_cache, files, frame_knob_list, frame, gif, load_count, callers, io,
                   run_result>>

\* The head of the frame loop: frame_reset, then the frame's knobs go into
\* the symbol table
FrameStart ==
    /\ pc = "frame"
    /\ frame < first_result.frames
    /\ picture' = {}
    /\ edges' = <<>>
    /\ polygons' = <<>>
    /\ coordinate_stack' = CoordinateStack_new
    /\ marks' = <<>>
    /\ symbols' = SetKnobs(symbols, frame_knob_list[frame])
    /\ ip' = 1
    /\ pc' = "replay"
    /\ UNCHANGED <<pass1Vars, pass2Vars, shading_mode, point_lights, camera_matrix,
                   mesh_cache, files, frame_knob_list, frame, gif, load_count, callers, io,
                   run_result>>

\* execute_command is about to be called on commands[ip]
Replaying == pc \in {"still", "replay"} /\ ip <= Len(commands)

\* An error that is recorded while the loop goes on with the next command
Abort_Continue(result) == ip' = ip + 1 /\ run_result' = result /\ UNCHANGED pc

\* execute_command returned Ok(()), returned an error, panicked
Advance == ip' = ip + 1 /\ UNCHANGED <<pc, run_result>>
Abort(result) == pc' = "done" /\ run_result' = result /\ UNCHANGED ip

\* What a rendering helper does to the context: the triangles go to the
\* framebuffer and the polygon list is emptied
Rendered(r) ==
    /\ picture' = picture \cup r.ops
    /\ polygons' = r.polygons
    /\ IF r.panic THEN Abort(Panic) ELSE Advance

\* ScriptContext::get_knob_value: the value of the knob, 1.0 without a knob
\* name and for a name that is not bound to a knob
get_knob_value(table, knob_name) ==
    IF IsSome(knob_name) /\ knob_name \in DOMAIN table
       /\ table[knob_name].kind = "Knob"
    THEN table[knob_name].value
    ELSE FromInt(1)

\* a * multiplier, for the whole numbers the matrices of this model hold
IntOf(x) == CASE IsFin(x) /\ x.d = 1 -> x.n
Times(a, multiplier) == IntOf(Mul(FromInt(a), multiplier))

\* Command::Polygon
ExecPolygon ==
    /\ Replaying
    /\ commands[ip].kind = "Polygon"
    /\ LET c == commands[ip]
           ctx == [Context EXCEPT !.polygons = add_polygon(polygons, c.polygon)]
       IN  Rendered(ScriptContext_render_polygons(ctx, c.constants, c.coord_system))
    /\ UNCHANGED <<pass1Vars, pass2Vars, edges, coordinate_stack, marks, shading_mode,
                   point_lights, camera_matrix, symbols, mesh_cache, files,
                   frame_knob_list, frame, gif, load_count, callers, io>>

\* Command::Mesh: the cached geometry when the cache holds a non-empty polygon
\* list for the path, the loader otherwise
ExecMesh ==
    /\ Replaying
    /\ commands[ip].kind = "Mesh"
    /\ LET c == commands[ip]
           hit == c.file_path \in DOMAIN mesh_cache
           cache == mesh_cache[c.file_path]
           cached_polygons == IF hit THEN cache.polygons ELSE <<>>
           textured == hit /\ cache.kind = "Texture"
           cached_info == IF textured THEN cache.polygon_info ELSE <<>>
           cached_mtls == IF textured THEN cache.mtls ELSE {}
           loaded == handle_mesh(polygons, files[c.file_path])
           render(ctx, is_textured, info, mtls) ==
               IF is_textured
               THEN ScriptContext_render_textured_polygons(ctx, info, mtls,
                                                           c.coord_system)
               ELSE ScriptContext_render_polygons(ctx, c.constants, c.coord_system)
       IN  IF cached_polygons # <<>>
           THEN /\ Rendered(render([Context EXCEPT !.polygons = cached_polygons],
                                   cached_info # <<>>, cached_info, cached_mtls))
                /\ UNCHANGED <<mesh_cache, load_count>>
           ELSE /\ load_count' = [load_count EXCEPT ![c.file_path] = @ + 1]
                /\ IF loaded.err # "none"
                   THEN /\ Abort(Err(loaded.err))
                        /\ UNCHANGED <<picture, polygons, mesh_cache>>
                   ELSE LET r == render([Context EXCEPT !.polygons = loaded.polygons],
                                        loaded.textured, loaded.polygon_info,
                                        loaded.mtls)
                            entry == IF loaded.textured
                                     THEN Texture(loaded.polygons, loaded.polygon_info,
                                                  loaded.mtls)
                                     ELSE NoTexture(loaded.polygons)
                        IN  /\ Rendered(r)
                            /\ mesh_cache' = IF r.panic THEN mesh_cache
                                             ELSE Insert(mesh_cache, c.file_path, entry)
    /\ UNCHANGED <<pass1Vars, pass2Vars, edges, coordinate_stack, marks, shading_mode,
                   point_lights, camera_matrix, symbols, files, frame_knob_list,
                   frame, gif, callers, io>>

\* Command::SetShading
ExecSetShading ==
    /\ Replaying
    /\ commands[ip].kind = "SetShading"
    /\ shading_mode' = commands[ip].shading_mode
    /\ Advance
    /\ UNCHANGED <<pass1Vars, pass2Vars, picture, edges, polygons, coordinate_stack,
                   marks, point_lights, camera_matrix, symbols, mesh_cache, files,
                   frame_knob_list, frame, gif, load_count, callers, io>>

\* Command::ClearLights
ExecClearLights ==
    /\ Replaying
    /\ commands[ip].kind = "ClearLights"
    /\ point_lights' = 0
    /\ Advance
    /\ UNCHANGED <<pass1Vars, pass2Vars, picture, edges, polygons, coordinate_stack,
                   marks, shading_mode, camera_matrix, symbols, mesh_cache, files,
                   frame_knob_list, frame, gif, load_count, callers, io>>

\* Command::AddLight
ExecAddLight ==
    /\ Replaying
    /\ commands[ip].kind = "AddLight"
    /\ point_lights' = point_lights + 1
    /\ Advance
    /\ UNCHANGED <<pass1Vars, pass2Vars, picture, edges, polygons, coordinate_stack,
                   marks, shading_mode, camera_matrix, symbols, mesh_cache, files,
                   frame_knob_list, frame, gif, load_count, callers, io>>

\* Command::Scale
ExecScale ==
    /\ Replaying
    /\ commands[ip].kind = "Scale"
    /\ LET c == commands[ip]
           multiplier == get_knob_value(symbols, c.knob)
       IN  coordinate_stack' =
               apply_transformation(coordinate_stack,
                   dilation(Times(c.a, multiplier), Times(c.b, multiplier),
                            Times(c.c, multiplier)))
    /\ Advance
    /\ UNCHANGED <<pass1Vars, pass2Vars, picture, edges, polygons, marks, shading_mode,
                   point_lights, camera_matrix, symbols, mesh_cache, files,
                   frame_knob_list, frame, gif, load_count, callers, io>>

\* A push command that leaves the stack alone
ExecPush_Skip ==
    /\ Replaying
    /\ commands[ip].kind = "Push"
    /\ marks' = Append(marks, coordinate_stack)
    /\ Advance
    /\ UNCHANGED <<pass1Vars, pass2Vars, picture, edges, polygons, coordinate_stack,
                   shading_mode, point_lights, camera_matrix, symbols, mesh_cache,
                   files, frame_knob_list, frame, gif, load_count, callers, io>>

\* Command::Push
ExecPush ==
    /\ Replaying
    /\ commands[ip].kind = "Push"
    /\ coordinate_stack' = push(coordinate_stack)
    /\ marks' = Append(marks, coordinate_stack)
    /\ Advance
    /\ UNCHANGED <<pass1Vars, pass2Vars, picture, edges, polygons, shading_mode,
                   point_lights, camera_matrix, symbols, mesh_cache, files,
                   frame_knob_list, frame, gif, load_count, callers, io>>

\* Command::Pop
ExecPop ==
    /\ Replaying
    /\ commands[ip].kind = "Pop"
    /\ coordinate_stack' = pop(coordinate_stack)
    /\ marks' = IF marks = <<>> THEN marks ELSE SubSeq(marks, 1, Len(marks) - 1)
    /\ Advance
    /\ UNCHANGED <<pass1Vars, pass2Vars, picture, edges, polygons, shading_mode,
                   point_lights, camera_matrix, symbols, mesh_cache, files,
                   frame_knob_list, frame, gif, load_count, callers, io>>

\* Command::SetKnob
ExecSetKnob ==
    /\ Replaying
    /\ commands[ip].kind = "SetKnob"
    /\ symbols' = set_knob(symbols, commands[ip].name, FromInt(commands[ip].value))
    /\ Advance
    /\ UNCHANGED <<pass1Vars, pass2Vars, picture, edges, polygons, coordinate_stack,
                   marks, shading_mode, point_lights, camera_matrix, mesh_cache,
                   files, frame_knob_list, frame, gif, load_count, callers, io>>

\* ScriptContext::set_all_knobs: every knob of the table takes the value
set_all_knobs(table, value) ==
    [x \in DOMAIN table |->
        IF table[x].kind = "Knob" THEN [kind |-> "Knob", value |-> value]
        ELSE table[x]]

\* Command::SetAllKnobs
ExecSetAllKnobs ==
    /\ Replaying
    /\ commands[ip].kind = "SetAllKnobs"
    /\ symbols' = set_all_knobs(symbols, FromInt(commands[ip].value))
    /\ Advance
    /\ UNCHANGED <<pass1Vars, pass2Vars, picture, edges, polygons, coordinate_stack,
                   marks, shading_mode, point_lights, camera_matrix, mesh_cache,
                   files, frame_knob_list, frame, gif, load_count, callers, io>>

\* ScriptContext::save_coord_system
save_coord_system(table, name, stack) ==
    Insert(table, name, [kind |-> "CoordSystem", transform |-> peek(stack)])

\* Command::SaveCoordSystem
ExecSaveCoordSystem ==
    /\ Replaying
    /\ commands[ip].kind = "SaveCoordSystem"
    /\ symbols' = save_coord_system(symbols, commands[ip].name, coordinate_stack)
    /\ Advance
    /\ UNCHANGED <<pass1Vars, pass2Vars, picture, edges, polygons, coordinate_stack,
                   marks, shading_mode, point_lights, camera_matrix, mesh_cache,
                   files, frame_knob_list, frame, gif, load_count, callers, io>>

\* Command::Box
ExecBox ==
    /\ Replaying
    /\ commands[ip].kind = "Box"
    /\ LET c == commands[ip]
           ctx == [Context EXCEPT
                      !.polygons = add_box(polygons, c.x, c.y, c.z, c.w, c.h, c.d)]
       IN  Rendered(ScriptContext_render_polygons(ctx, c.constants, c.coord_system))
    /\ UNCHANGED <<pass1Vars, pass2Vars, edges, coordinate_stack, marks, shading_mode,
                   point_lights, camera_matrix, symbols, mesh_cache, files,
                   frame_knob_list, frame, gif, load_count, callers, io>>

\* Command::Line
ExecLine ==
    /\ Replaying
    /\ commands[ip].kind = "Line"
    /\ LET c == commands[ip]
           r == ScriptContext_render_edges(
                    [Context EXCEPT !.edges = add_edge(edges, c.p0, c.p1)])
       IN  picture' = picture \cup r.ops /\ edges' = r.edges
    /\ Advance
    /\ UNCHANGED <<pass1Vars, pass2Vars, polygons, coordinate_stack, marks,
                   shading_mode, point_lights, camera_matrix, symbols, mesh_cache,
                   files, frame_knob_list, frame, gif, load_count, callers, io>>

\* The camera matrix of Command::SetCamera
LookAt(eye, aim) ==
    LET forward == normalize_vector(subtract_vectors(aim, eye))
        up == <<0, 1, 0>>
        right == normalize_vector(cross_product(forward, up))
        up_new == cross_product(right, forward)
        ex == 0 - dot_product(right, eye)
        ey == 0 - dot_product(up_new, eye)
        ez == dot_product(forward, eye)
    IN  <<<<right[1], right[2], right[3], 0>>,
          <<up_new[1], up_new[2], up_new[3], 0>>,
          <<0 - forward[1], 0 - forward[2], 0 - forward[3], 0>>,
          <<ex, ey, ez, 1>>>>

\* Command::SetCamera
ExecSetCamera ==
    /\ Replaying
    /\ commands[ip].kind = "SetCamera"
    /\ camera_matrix' = LookAt(commands[ip].eye, commands[ip].aim)
    /\ Advance
    /\ UNCHANGED <<pass1Vars, pass2Vars, picture, edges, polygons, coordinate_stack,
                   marks, shading_mode, point_lights, symbols, mesh_cache, files,
                   frame_knob_list, frame, gif, load_count, callers, io>>

\* A frame is being replayed by the running call of evaluate_commands or by
\* one of the calls that wait for it
InFrame == pc = "replay" \/ \E i \in DOMAIN callers : callers[i].pc = "replay"

\* A call of Picture::display or Picture::save_as_file by a command
IoCall(op) == [op |-> op, in_frame |-> InFrame]

\* Command::Display and Command::Save { file_path }: nothing when animation
\* is set; the call may fail, and the failure is returned
ExecOutput(kind, op) ==
    /\ Replaying
    /\ commands[ip].kind = kind
    /\ IF pc = "replay"
       THEN Advance /\ UNCHANGED io
       ELSE /\ io' = io \cup {IoCall(op)}
            /\ \E ok \in BOOLEAN : IF ok THEN Advance ELSE Abort(Err("Io"))
    /\ UNCHANGED <<pass1Vars, pass2Vars, contextVars, files, frame_knob_list,
                   frame, gif, load_count, callers>>

ExecDisplay == ExecOutput("Display", "display")
ExecSave == ExecOutput("Save", "save_as_file")

\* ScriptContext::save_composite_command
save_composite_command(table, name, body) ==
    Insert(table, name, [kind |-> "CompositeCommand", commands |-> body])

\* Command::CreateComposite
ExecCreateComposite ==
    /\ Replaying
    /\ commands[ip].kind = "CreateComposite"
    /\ symbols' = save_composite_command(symbols, commands[ip].name,
                                         commands[ip].commands)
    /\ Advance
    /\ UNCHANGED <<pass1Vars, pass2Vars, picture, edges, polygons, coordinate_stack,
                   marks, shading_mode, point_lights, camera_matrix, mesh_cache,
                   files, frame_knob_list, frame, gif, load_count, callers, io>>

\* The locals of a call of evaluate_commands that waits for a composite
Caller ==
    [commands |-> commands, first_result |-> first_result,
     frame_knob_list |-> frame_knob_list, frame |-> frame, gif |-> gif,
     ip |-> ip, pc |-> pc]

\* Command::RunComposite, run_composite_command: evaluate_commands is called
\* on the commands of the composite.  Each call is a frame of the thread's
\* stack; a call the stack has no room for ends the process.
ExecRunComposite ==
    /\ Replaying
    /\ commands[ip].kind = "RunComposite"
    /\ LET name == commands[ip].name
       IN  IF name \in DOMAIN symbols /\ symbols[name].kind = "CompositeCommand"
              /\ Len(callers) >= MaxDepth
           THEN /\ pc' = "overflow" /\ run_result' = StackOverflow
                /\ UNCHANGED <<pass1Vars, callers, frame_knob_list, frame, gif, ip>>
           ELSE IF name \in DOMAIN symbols /\ symbols[name].kind = "CompositeCommand"
           THEN /\ callers' = Append(callers, Caller)
                /\ commands' = symbols[name].commands
                /\ first_result' = NotRun
                /\ pc' = "evaluate" /\ ip' = 0 /\ frame' = 0 /\ gif' = <<>>
                /\ frame_knob_list' = NewFrameKnobs(0)
                /\ UNCHANGED run_result
           ELSE /\ Abort(Err("CompositeNotFound"))
                /\ UNCHANGED <<pass1Vars, callers, frame_knob_list, frame, gif>>
    /\ UNCHANGED <<pass2Vars, contextVars, files, load_count, io>>

\* evaluate_commands returns to run_composite_command: Ok(()) lets the
\* caller go on with its next command, an error is returned by the caller
ReturnToCaller ==
    /\ pc = "done"
    /\ callers # <<>>
    /\ LET caller == callers[Len(callers)]
       IN  /\ callers' = SubSeq(callers, 1, Len(callers) - 1)
           /\ commands' = caller.commands
           /\ first_result' = caller.first_result
           /\ frame_knob_list' = caller.frame_knob_list
           /\ frame' = caller.frame
           /\ gif' = caller.gif
           /\ IF run_result = RunOk
              THEN pc' = caller.pc /\ ip' = caller.ip + 1 /\ run_result' = Running
              ELSE pc' = "done" /\ ip' = caller.ip /\ UNCHANGED run_result
    /\ UNCHANGED <<pass2Vars, contextVars, files, load_count, io>>

\* The commands this model executes; execute_command has arms for more
Executed ==
    {"Polygon", "Mesh", "SetShading", "Scale", "Push", "Pop", "SetKnob", "Display",
     "Save", "CreateComposite", "RunComposite", "SaveCoordSystem", "Box", "Line",
     "SetCamera", "ClearLights", "AddLight", "SetAllKnobs"}

\* The commands execute_command does nothing for
ExecIgnored ==
    /\ Replaying
    /\ commands[ip].kind \notin Executed
    /\ Advance
    /\ UNCHANGED <<pass1Vars, pass2Vars, contextVars, files, frame_knob_list,
                   frame, gif, load_count, callers, io>>

\* The end of the command list on the still path: Ok(())
StillEnd ==
    /\ pc = "still"
    /\ ip > Len(commands)
    /\ pc' = "done"
    /\ run_result' = RunOk
    /\ UNCHANGED <<pass1Vars, pass2Vars, contextVars, files, frame_knob_list,
                   frame, ip, gif, load_count, callers, io>>

\* The call of Animation::save_as_file after the frame loop
GifCall ==
    [op |-> "gif.save_as_file",
     in_frame |-> \E i \in DOMAIN callers : callers[i].pc = "replay"]

\* The end of the command list in a frame: the picture is added to the
\* animation; after the last frame the animation is written, which may fail,
\* and the run is over
FrameEnd ==
    /\ pc = "replay"
    /\ ip > Len(commands)
    /\ gif' = Append(gif, picture)
    /\ IF frame + 1 < first_result.frames
       THEN frame' = frame + 1 /\ pc' = "frame" /\ UNCHANGED <<run_result, io>>
       ELSE /\ pc' = "done"
            /\ io' = io \cup {GifCall}
            /\ \E ok \in BOOLEAN : run_result' = IF ok THEN RunOk ELSE Err("GifIo")
            /\ UNCHANGED frame
    /\ UNCHANGED <<pass1Vars, pass2Vars, contextVars, files, frame_knob_list,
                   ip, load_count, callers>>

NextRun ==
    \/ Evaluate
    \/ FrameStart
    \/ ExecPolygon
    \/ ExecMesh
    \/ ExecSetShading
    \/ ExecScale
    \/ ExecSaveCoordSystem
    \/ ExecIgnored
    \/ StillEnd
    \/ FrameEnd

SpecRun == InitRun /\ [][NextRun]_vars

\* ------------------------------------------------------------------------
\* The coordinate stack and the knobs of the transformations
\* ------------------------------------------------------------------------

\* push, pop, a mirror without a knob, an enlargement driven by the knob k1,
\* the knob k1 set to 0, and the frame count
StackCmds ==
    {[kind |-> "Push"], [kind |-> "Pop"],
     [kind |-> "Scale", a |-> 2, b |-> 2, c |-> 2, knob |-> "k1"],
     [kind |-> "SetKnob", name |-> "k1", value |-> 0]}
    \cup ScaleCmds \cup {c \in SetFramesCmds : c.num_frames = MaxFrames}

StackScripts == UNION {[1..k -> StackCmds] : k \in 0..MaxScript}

\* A run that loads no mesh
InitScript(scripts) ==
    /\ commands \in scripts
    /\ first_result = NotRun
    /\ Pass2Idle
    /\ ScriptContext_new
    /\ files = [p \in Paths |-> MissingFile]
    /\ pc = "evaluate" /\ frame_knob_list = NewFrameKnobs(0) /\ frame = 0 /\ ip = 0
    /\ gif = <<>> /\ load_count = [p \in Paths |-> 0] /\ run_result = Running
    /\ callers = <<>> /\ io = {}

InitStack == InitScript(StackScripts)

NextStack ==
    \/ Evaluate
    \/ FrameStart
    \/ ExecPush
    \/ ExecPop
    \/ ExecScale
    \/ ExecSetKnob
    \/ ExecIgnored
    \/ StillEnd
    \/ FrameEnd

SpecStack == InitStack /\ [][NextStack]_vars

\* ------------------------------------------------------------------------
\* Properties of pass 1 and pass 2
\* ------------------------------------------------------------------------

\* The directive bound to the loop variable is about to be executed
Executing(kinds) == second_result = Running /\ command.kind \in kinds

\* 0 <= start_frame <= end_frame < frame_count
ValidRange(c) ==
    0 <= c.start_frame /\ c.start_frame <= c.end_frame /\ c.end_frame < frames

\* a + (b - a) * (f - s) / (e - s) for s < e, as an exact fraction
Linear(a, b, s, e, f) == Rat(a * (e - s) + (b - a) * (f - s), e - s)

\* C1: a vary directive without easing that passes validation resolves its
\* knob at every frame f of [s, e] to a + (b-a)*(f-s)/(e-s), to exactly a at
\* f = s and to exactly b at f = e (for the single-frame range s = e: to a at
\* that frame), and gives no value to a frame outside [s, e].
C1_VaryLinear ==
    [][(Executing({"VaryKnob"}) /\ command.easing = "none" /\ ValidRange(command))
       => LET c == command
          IN  /\ second_result' = Running
              /\ \A f \in 0..(frames - 1) :
                    IF c.start_frame <= f /\ f <= c.end_frame
                    THEN /\ c.knob \in DOMAIN frame_knobs'[f]
                         /\ frame_knobs'[f][c.knob] =
                               IF f = c.start_frame THEN FromInt(c.start_val)
                               ELSE IF f = c.end_frame THEN FromInt(c.end_val)
                               ELSE Linear(c.start_val, c.end_val, c.start_frame,
                                           c.end_frame, f)
                    ELSE frame_knobs'[f] = frame_knobs[f]]_vars

\* C2: pass 2 fails with a frame-range error for every vary or tween
\* directive whose frames do not satisfy 0 <= start <= end < frame_count and
\* for no directive that satisfies it; the failure returns no knob maps.
C2_FrameRange ==
    [][Executing({"VaryKnob", "Tween"})
       => /\ (~ValidRange(command)) <=> (second_result' = Err("FrameRange"))
          /\ (~ValidRange(command)) =>
                (second_result'.tag = "Err" /\ "maps" \notin DOMAIN second_result')]_vars

\* C2: an inverted tween whose frames both lie below the frame count has
\* failed with the frame-range error.
C2_Witness ==
    /\ second_result = Err("FrameRange")
    /\ command.kind = "Tween"
    /\ command.start_frame > command.end_frame
    /\ command.start_frame < frames

\* C3: first_pass fails with the missing-frame-count error exactly when the
\* list holds an animation indicator (set-basename, vary, tween) and no
\* frame-count command; otherwise it returns the frame count, which is that
\* of the last frame-count command and 0 when there is none.
C3_MissingFrameCount ==
    first_result # NotRun =>
        LET idx == 1..Len(commands)
            indicator == \E i \in idx :
                commands[i].kind \in {"SetBaseName", "VaryKnob", "Tween"}
            setters == {i \in idx : commands[i].kind = "SetFrames"}
        IN  /\ (first_result.err = "MissingFrameCount") <=> (indicator /\ setters = {})
            /\ (~(indicator /\ setters = {})) =>
                  /\ first_result.err = "none"
                  /\ first_result.frames =
                        IF setters = {} THEN 0
                        ELSE commands[CHOOSE i \in setters :
                                         \A j \in setters : j <= i].num_frames

\* C3: a list whose only animation indicator is a tween, with no frame
\* count, has been refused.
C3_Witness ==
    /\ first_result.err = "MissingFrameCount"
    /\ \E i \in 1..Len(commands) : commands[i].kind = "Tween"
    /\ \A i \in 1..Len(commands) : commands[i].kind \notin {"SetBaseName", "VaryKnob"}

\* C4: a valid tween (here: without easing, between snapshots A and B that
\* hold finite values) resolves at each frame of its range exactly the knobs
\* of A or B, and a knob of A alone resolves to its value in A at start_frame
\* and to 0 at end_frame (for s = e: to its value in A), symmetrically for a
\* knob of B alone.
C4_TweenUnion ==
    [][(/\ Executing({"Tween"})
        /\ command.easing = "none"
        /\ ValidRange(command)
        /\ command.knoblist0 \in DOMAIN saved_knobs
        /\ command.knoblist1 \in DOMAIN saved_knobs
        /\ \A l \in {command.knoblist0, command.knoblist1} :
              \A k \in DOMAIN saved_knobs[l] : IsFin(saved_knobs[l][k]))
       => LET c == command
              A == saved_knobs[c.knoblist0]
              B == saved_knobs[c.knoblist1]
          IN  /\ second_result' = Running
              /\ \A f \in c.start_frame..c.end_frame :
                    DOMAIN frame_knobs'[f] =
                        (DOMAIN frame_knobs[f]) \cup (DOMAIN A) \cup (DOMAIN B)
              /\ \A k \in (DOMAIN A) \ (DOMAIN B) :
                    /\ frame_knobs'[c.start_frame][k] = A[k]
                    /\ c.start_frame < c.end_frame =>
                          frame_knobs'[c.end_frame][k] = Zero
              /\ \A k \in (DOMAIN B) \ (DOMAIN A) :
                    /\ frame_knobs'[c.end_frame][k] = B[k]
                    /\ c.start_frame < c.end_frame =>
                          frame_knobs'[c.start_frame][k] = Zero]_vars

\* C5: save_knobs stores under its name a copy of the frame-0 knob map as it
\* stands, replacing what the name held; no other step of pass 2 changes a
\* stored snapshot.
C5_SaveKnobs ==
    [][IF Executing({"SaveKnobList"})
       THEN /\ saved_knobs' = Insert(saved_knobs, command.name, frame_knobs[0])
            /\ frame_knobs' = frame_knobs
       ELSE saved_knobs' = saved_knobs]_vars

\* C5: a snapshot that holds a knob has outlived a change of the frame-0 map,
\* which differs from the map of frame 1.
C5_Witness ==
    /\ frames > 1
    /\ "A" \in DOMAIN saved_knobs
    /\ saved_knobs["A"] # EmptyMap
    /\ saved_knobs["A"] # frame_knobs[0]
    /\ frame_knobs[0] # frame_knobs[1]

\* C6: a tween with a valid frame range, one of whose snapshot names no
\* earlier save_knobs directive stored, fails with the undefined-knob-list
\* error and leaves every frame's knob map as it was.
C6_UndefinedKnobList ==
    [][(/\ Executing({"Tween"})
        /\ ValidRange(command)
        /\ (command.knoblist0 \notin saved_names \/ command.knoblist1 \notin saved_names))
       => /\ second_result' = Err("UndefinedKnobList")
          /\ frame_knobs' = frame_knobs]_vars

\* C6: a tween whose first snapshot was saved and whose second was not has
\* failed, with knobs already resolved for frame 0.
C6_Witness ==
    /\ second_result = Err("UndefinedKnobList")
    /\ command.kind = "Tween"
    /\ command.knoblist0 \in saved_names
    /\ command.knoblist1 \notin saved_names
    /\ frame_knobs[0] # EmptyMap

\* C7: with an easing curve named, the value resolved at frame f of a range
\* s < e is a + (b-a)*ease((f-s)/(e-s)): the start value at start_frame and
\* the end value at end_frame, whatever the two values are.
C7_EasedFraction ==
    [][(/\ Executing({"VaryKnob"})
        /\ command.easing \in DOMAIN EASING_FUNCTIONS
        /\ ValidRange(command)
        /\ command.start_frame < command.end_frame)
       => LET c == command
              ease(f) == eval(EASING_FUNCTIONS[c.easing],
                              Rat(f - c.start_frame, c.end_frame - c.start_frame))
          IN  \A f \in c.start_frame..c.end_frame :
                 /\ c.knob \in DOMAIN frame_knobs'[f]
                 /\ frame_knobs'[f][c.knob] =
                       IF f = c.start_frame THEN FromInt(c.start_val)
                       ELSE IF f = c.end_frame THEN FromInt(c.end_val)
                       ELSE Add(FromInt(c.start_val),
                                Mul(FromInt(c.end_val - c.start_val), ease(f)))]_vars

\* C8: a vary or tween directive with a valid frame range (and, for a tween,
\* two saved snapshots, whatever they hold) that names an easing curve outside
\* the built-in set makes pass 2 fail with the undefined-easing error.
C8_UndefinedEasing ==
    [][(/\ Executing({"VaryKnob", "Tween"})
        /\ ValidRange(command)
        /\ IsSome(command.easing)
        /\ command.easing \notin
              {"easeInCubic", "easeOutCubic", "easeInExpo", "easeOutExpo"}
        /\ command.kind = "Tween" =>
              (/\ command.knoblist0 \in DOMAIN saved_knobs
               /\ command.knoblist1 \in DOMAIN saved_knobs))
       => second_result' = Err("UndefinedEasing")]_vars

\* ------------------------------------------------------------------------
\* Properties of a script run
\* ------------------------------------------------------------------------

\* C9: within one script run the mesh loader handle_mesh is called at most
\* once for each mesh file path, however many mesh commands and frames refer
\* to the path and whatever the file holds
C9_LoadedOnce == \A p \in Paths : load_count[p] <= 1

\* C10: with culling enabled no triangle whose normal, computed after the
\* camera transform, has a negative z-component is sent to the framebuffer,
\* under any shading mode and for textured meshes too
C10_BackFaceCulled ==
    ENABLE_BACK_FACE_CULLING => \A r \in picture : ~(NormalZ(r.polygon) < 0)

\* ------------------------------------------------------------------------
\* Output commands and composite commands
\* ------------------------------------------------------------------------

OutputCmds == {[kind |-> "Display"], [kind |-> "Save", file_path |-> "out.png"]}

\* display and save, a composite of one output command under the name c, a
\* run of c, and the frame count
CompositeCmds ==
    OutputCmds
    \cup {[kind |-> "CreateComposite", name |-> "c", commands |-> <<o>>] :
              o \in OutputCmds}
    \cup {[kind |-> "RunComposite", name |-> "c"]}
    \cup {c \in SetFramesCmds : c.num_frames = MaxFrames}

CompositeScripts == UNION {[1..k -> CompositeCmds] : k \in 0..MaxScript}

InitComposite == InitScript(CompositeScripts)

NextComposite ==
    \/ Evaluate
    \/ FrameStart
    \/ ExecDisplay
    \/ ExecSave
    \/ ExecCreateComposite
    \/ ExecRunComposite
    \/ ReturnToCaller
    \/ ExecIgnored
    \/ StillEnd
    \/ FrameEnd

SpecComposite == InitComposite /\ [][NextComposite]_vars

\* C15: no display and no save-to-file is invoked by a command executed
\* while a frame is being replayed, neither by a command of the script's
\* list nor by a command reached through a composite.
C15_NoOutputInFrames == \A call \in io : ~call.in_frame

\* ------------------------------------------------------------------------
\* Composites that run composites
\* ------------------------------------------------------------------------

CompositeNames == {"c", "d"}

\* Composites of one command, a display or the run of a composite, the run
\* of a composite, and the frame count
RecursionCmds ==
    {[kind |-> "CreateComposite", name |-> n, commands |-> <<body>>] :
         n \in CompositeNames,
         body \in {[kind |-> "Display"]}
                   \cup {[kind |-> "RunComposite", name |-> m] : m \in CompositeNames}}
    \cup {[kind |-> "RunComposite", name |-> n] : n \in CompositeNames}
    \cup {c \in SetFramesCmds : c.num_frames = MaxFrames}

RecursionScripts == UNION {[1..k -> RecursionCmds] : k \in 0..MaxScript}

InitRecursion == InitScript(RecursionScripts)

NextRecursion ==
    \/ Evaluate
    \/ FrameStart
    \/ ExecDisplay
    \/ ExecCreateComposite
    \/ ExecRunComposite
    \/ ReturnToCaller
    \/ ExecIgnored
    \/ StillEnd
    \/ FrameEnd

\* The interpreter is one thread that runs whenever it can take a step
SpecRecursion == InitRecursion /\ [][NextRecursion]_vars /\ WF_vars(NextRecursion)

\* The call of evaluate_commands on the script has returned
Returned == pc = "done" /\ callers = <<>>

\* C27: evaluate_commands terminates on every finite command list: every
\* invocation of a composite returns, also when the commands of a stored
\* composite invoke that composite or one that leads back to it, and a frame
\* loop that comes to its end has run frame_count iterations.
C27_Terminates ==
    /\ <>Returned
    /\ [](pc = "done" /\ run_result = RunOk /\ first_result.frames > 0
            => Len(gif) = first_result.frames)

\* No composite of the script runs a composite
NoNestedRun ==
    \A i \in DOMAIN commands :
        commands[i].kind = "CreateComposite"
            => \A k \in DOMAIN commands[i].commands :
                   commands[i].commands[k].kind # "RunComposite"

\* The same for the scripts whose composites run no composite
C27_FlatComposites ==
    /\ NoNestedRun => <>Returned
    /\ [](pc = "done" /\ run_result = RunOk /\ first_result.frames > 0
            => Len(gif) = first_result.frames)

\* ------------------------------------------------------------------------
\* The mesh command, the mesh cache and the lights
\* ------------------------------------------------------------------------

LightCmds == {[kind |-> "ClearLights"], [kind |-> "AddLight"]}

MeshCacheCmds ==
    MeshCmds \cup LightCmds \cup ScaleCmds
    \cup {c \in SetFramesCmds : c.num_frames = MaxFrames}

MeshScripts == UNION {[1..k -> MeshCacheCmds] : k \in 0..MaxScript}

\* The files of the run: one without a material library, one with the
\* library named before the faces, one with the library named after them
CachedFiles ==
    {MeshFile(<<Front>>, FALSE), MeshFile(<<Front, Back>>, TRUE), LateMtllib(<<Front>>)}

InitMesh ==
    /\ commands \in MeshScripts
    /\ first_result = NotRun
    /\ Pass2Idle
    /\ ScriptContext_new
    /\ files \in [Paths -> CachedFiles]
    /\ pc = "evaluate" /\ frame_knob_list = NewFrameKnobs(0) /\ frame = 0 /\ ip = 0
    /\ gif = <<>> /\ load_count = [p \in Paths |-> 0] /\ run_result = Running
    /\ callers = <<>> /\ io = {}

NextMesh ==
    \/ Evaluate
    \/ FrameStart
    \/ ExecMesh
    \/ ExecClearLights
    \/ ExecAddLight
    \/ ExecScale
    \/ ExecIgnored
    \/ StillEnd
    \/ FrameEnd

SpecMesh == InitMesh /\ [][NextMesh]_vars

\* The mesh command about to be executed finds its geometry in the cache
CacheHit ==
    /\ Replaying
    /\ commands[ip].kind = "Mesh"
    /\ commands[ip].file_path \in DOMAIN mesh_cache
    /\ mesh_cache[commands[ip].file_path].polygons # <<>>

\* What the command that loads the file of path p does in the present context:
\* the loader's triangles through the texture mapper when the loader returned
\* material data, through render_polygons otherwise
Loading(p) ==
    IF handle_mesh(<<>>, files[p]).textured
    THEN ScriptContext_render_textured_polygons(
             [Context EXCEPT !.polygons = handle_mesh(<<>>, files[p]).polygons],
             handle_mesh(<<>>, files[p]).polygon_info,
             handle_mesh(<<>>, files[p]).mtls, "none")
    ELSE ScriptContext_render_polygons(
             [Context EXCEPT !.polygons = handle_mesh(<<>>, files[p]).polygons],
             "none", "none")

\* The cache holds the loader's triangles, untransformed
CacheIsLoaded ==
    \A p \in DOMAIN mesh_cache : mesh_cache[p].polygons = handle_mesh(<<>>, files[p]).polygons

\* A mesh command served from the cache draws what the loading command draws
\* in the same context, and leaves the cache as it is
ReplaysLoading ==
    CacheHit => /\ picture' = picture \cup Loading(commands[ip].file_path).ops
                /\ polygons' = Loading(commands[ip].file_path).polygons
                /\ mesh_cache' = mesh_cache

C25_BoundFaces ==
    /\ []CacheIsLoaded
    /\ [][(CacheHit /\ ~(files[commands[ip].file_path].mtllib
                         /\ files[commands[ip].file_path].bound = 0))
          => ReplaysLoading]_vars

\* The mesh command at ip is for a file with material bindings
TexturedMesh ==
    /\ ip \in DOMAIN commands
    /\ commands[ip].kind = "Mesh"
    /\ files[commands[ip].file_path].bound > 0

\* C26: after any sequence of clear_lights and light commands, also one that
\* leaves the list of point lights empty, a mesh command for a textured mesh
\* completes without a failure.
C26_TexturedMeshCompletes ==
    ~(TexturedMesh /\ run_result # Running /\ run_result # RunOk)

\* A textured mesh fails only when there is no point light
C26_LitMeshCompletes ==
    (TexturedMesh /\ run_result # Running /\ run_result # RunOk)
        => run_result = Panic /\ point_lights = 0

\* ------------------------------------------------------------------------
\* Failures of the passes and of the commands
\* ------------------------------------------------------------------------

\* A vary whose range ends behind the last frame, a vary with an easing that
\* is not built in, and a tween between snapshots that no directive saved
FailingDirectives ==
    {[kind |-> "VaryKnob", knob |-> "k1", start_frame |-> 0, end_frame |-> MaxFrames,
      start_val |-> 0, end_val |-> MaxVal, easing |-> "none"],
     [kind |-> "VaryKnob", knob |-> "k1", start_frame |-> 0,
      end_frame |-> MaxFrames - 1, start_val |-> 0, end_val |-> MaxVal,
      easing |-> "bounce"],
     [kind |-> "Tween", start_frame |-> 0, end_frame |-> MaxFrames - 1,
      knoblist0 |-> "A", knoblist1 |-> "B", easing |-> "none"]}

\* The failing directives, a save_knobs, a display, and a frame count of 0
\* or of MaxFrames
StillCmds ==
    FailingDirectives
    \cup {[kind |-> "SaveKnobList", name |-> "A"], [kind |-> "Display"]}
    \cup {c \in SetFramesCmds : c.num_frames \in {0, MaxFrames}}

StillScripts == UNION {[1..k -> StillCmds] : k \in 0..MaxScript}

InitStill == InitScript(StillScripts)

NextStill ==
    \/ Evaluate
    \/ FrameStart
    \/ ExecDisplay
    \/ ExecIgnored
    \/ StillEnd
    \/ FrameEnd

SpecStill == InitStill /\ [][NextStill]_vars

\* Pass 1 has returned the frame count n
FrameCount(n) ==
    first_result # NotRun /\ first_result.err = "none" /\ first_result.frames = n

\* The script has a frame count command, which makes pass 1 succeed
HasFrames == \E i \in DOMAIN commands : commands[i].kind = "SetFrames"

\* C28: pass 2 runs if and only if the frame count of pass 1 is not 0.  With
\* a frame count of 0 the script runs as a still: no error of pass 2 is
\* returned whatever its vary, tween and save_knobs directives are, no knob
\* is set and no frame is rendered, the commands are executed one after the
\* other, each once, and a display is carried out.  With another frame count
\* an error of pass 2 is returned before any command is executed.
C28_StillSkipsPass2 ==
    /\ [](FrameCount(0)
            => /\ pc \in {"still", "done"}
               /\ run_result \in {Running, RunOk, Err("Io")}
               /\ gif = <<>> /\ frame_knob_list = NewFrameKnobs(0)
               /\ symbols = EmptyMap
               /\ (run_result = RunOk => ip = Len(commands) + 1)
               /\ \A i \in 1..(ip - 1) :
                      commands[i].kind = "Display"
                          => [op |-> "display", in_frame |-> FALSE] \in io)
    /\ [][pc = "still" /\ pc' = "still" => ip' = ip + 1]_vars
    /\ [](first_result # NotRun /\ HasFrames /\ ~FrameCount(0)
            /\ second_pass(commands, first_result.frames).err # "none"
            => /\ run_result = Err(second_pass(commands, first_result.frames).err)
               /\ pc = "done" /\ ip = 0 /\ io = {} /\ gif = <<>>)

\* A script with a frame count of 0, a vary whose range no frame count
\* admits and a display has run to its end and has displayed the picture
C28_Witness ==
    /\ FrameCount(0)
    /\ pc = "done" /\ run_result = RunOk
    /\ \E i \in DOMAIN commands :
           commands[i].kind = "VaryKnob" /\ commands[i].end_frame = MaxFrames
    /\ [op |-> "display", in_frame |-> FALSE] \in io

\* The failing directives, a mesh whose file may be missing, a triangle, a
\* display and the frame count
AbortCmds ==
    FailingDirectives
    \cup {c \in MeshCmds : c.file_path = "a.obj"}
    \cup {c \in PolygonCmds : c.polygon = Front /\ c.coord_system = "none"}
    \cup {[kind |-> "Display"]}
    \cup {c \in SetFramesCmds : c.num_frames = MaxFrames}

AbortScripts == UNION {[1..k -> AbortCmds] : k \in 0..MaxScript}

InitAbort ==
    /\ commands \in AbortScripts
    /\ first_result = NotRun
    /\ Pass2Idle
    /\ ScriptContext_new
    /\ files \in {f \in [Paths -> MeshFiles] : f["b.obj"] = MissingFile}
    /\ pc = "evaluate" /\ frame_knob_list = NewFrameKnobs(0) /\ frame = 0 /\ ip = 0
    /\ gif = <<>> /\ load_count = [p \in Paths |-> 0] /\ run_result = Running
    /\ callers = <<>> /\ io = {}

NextAbort ==
    \/ Evaluate
    \/ FrameStart
    \/ ExecMesh
    \/ ExecPolygon
    \/ ExecDisplay
    \/ ExecIgnored
    \/ StillEnd
    \/ FrameEnd

SpecAbort == InitAbort /\ [][NextAbort]_vars

\* The run has returned an error
Failed == run_result # Running /\ run_result # RunOk /\ run_result # Panic

\* The errors of pass 1 and pass 2
PassErrors == {"MissingFrameCount", "FrameRange", "UndefinedKnobList", "UndefinedEasing"}

EvalSteps == 20
EvalInputs ==
    {Rat(i, EvalSteps) : i \in (0 - EvalSteps \div 5)..(EvalSteps + EvalSteps \div 5)}
    \cup {NaN, PosInf, NegInf}

InitEasing ==
    /\ Pass1Idle
    /\ frames = 0 /\ consumed = 0 /\ frame_knobs = NewFrameKnobs(0)
    /\ saved_knobs = EmptyMap /\ saved_names = {}
    /\ command \in [kind : {"eval"}, easing : DOMAIN EASING_FUNCTIONS, x : EvalInputs]
    /\ second_result = Running
    /\ RunIdle

\* The call func.eval(x): the value returned and the Newton parameter t
\* before the loop (index 0) and after each iteration
Eval ==
    /\ second_result = Running
    /\ command.kind = "eval"
    /\ LET func == EASING_FUNCTIONS[command.easing]
           xg == ToGrid(command.x)
       IN  second_result' =
               [tag |-> "evaluated",
                value |-> eval(func, command.x),
                t |-> [k \in 0..NewtonIterations |-> Newton(func.cx, xg, Clamp01(xg), k)]]
    /\ UNCHANGED <<pass1Vars, frames, command, consumed, frame_knobs, saved_knobs,
                   saved_names, runVars>>

NextEasing == Eval

SpecEasing == InitEasing /\ [][NextEasing]_vars

\* 0 <= t <= 1
InUnit(t) == IsFin(t) /\ ~Less(t, Zero) /\ ~Less(FromInt(1), t)

\* |a - b| is at most 1/100
Near(a, b) ==
    /\ IsFin(a)
    /\ ~Less(Rat(1, 100), Sub(a, b))
    /\ ~Less(Rat(1, 100), Sub(b, a))

\* C22: for each of the four built-in curves eval returns 0 at x = 0 and 1
\* at x = 1, within the tolerance of the Newton solve, and the Newton
\* parameter t is inside [0, 1] after every iteration, for every input x.
C22_EasingEndpoints ==
    (second_result # Running /\ command.kind = "eval")
    => /\ (command.x = Zero) => Near(second_result.value, Zero)
       /\ (command.x = FromInt(1)) => Near(second_result.value, FromInt(1))
       /\ \A k \in 1..NewtonIterations : InUnit(second_result.t[k])

\* The part of C22 that holds: the same for the inputs that are numbers or
\* infinities
C22_FiniteInputs == IsNaN(command.x) \/ C22_EasingEndpoints

\* ------------------------------------------------------------------------
\* render_polygons on its own
\* ------------------------------------------------------------------------

\* A triangle in the plane x = 0 that shares the edge (0,0,0)-(0,2,0) with
\* Front and Back; its normal is (4, 0, 0)
Side == <<<<0, 0, 0>>, <<0, 2, 0>>, <<0, 0, 2>>>>

RenderTriangles == {Front, Back, Side}

\* The polygon lists of up to MaxScript triangles
RenderLists ==
    {LoadPolygons(<<>>, t, 1) : t \in UNION {[1..k -> RenderTriangles] : k \in 0..MaxScript}}

\* A polygon list, a shading mode and a value of the culling constant
InitRender ==
    /\ Pass1Idle
    /\ frames = 0 /\ consumed = 0 /\ frame_knobs = NewFrameKnobs(0)
    /\ saved_knobs = EmptyMap /\ saved_names = {}
    /\ command \in [kind : {"render_polygons"}, culling : BOOLEAN]
    /\ second_result = Running
    /\ picture = {} /\ edges = <<>>
    /\ polygons \in RenderLists
    /\ coordinate_stack = CoordinateStack_new /\ marks = <<>>
    /\ shading_mode \in ShadingModes /\ point_lights = 1
    /\ camera_matrix = Identity /\ symbols = EmptyMap /\ mesh_cache = EmptyMap
    /\ files = [p \in Paths |-> MissingFile]
    /\ pc = "render" /\ frame_knob_list = NewFrameKnobs(0) /\ frame = 0 /\ ip = 0
    /\ gif = <<>> /\ load_count = [p \in Paths |-> 0] /\ run_result = Running
    /\ callers = <<>> /\ io = {}

\* The call of polygon_list::render_polygons
Render ==
    /\ pc = "render"
    /\ picture' = render_polygons_built(polygons, shading_mode, command.culling)
    /\ pc' = "rendered"
    /\ UNCHANGED <<pass1Vars, pass2Vars, edges, polygons, coordinate_stack, marks,
                   shading_mode, point_lights, camera_matrix, symbols, mesh_cache,
                   files, frame_knob_list, frame, ip, gif, load_count, callers, io,
                   run_result>>

NextRender == Render

SpecRender == InitRender /\ [][NextRender]_vars

\* The triangles of the picture
Plotted == {r.polygon : r \in picture}

\* C23: with the culling flag disabled every triangle of the list is
\* rasterized under the active shading mode, and with it enabled exactly the
\* triangles whose normal has a positive z-component.
C23_CullingFlag ==
    (pc = "rendered")
    => /\ \A r \in picture : r.shading = shading_mode
       /\ Plotted = {Chunks(polygons)[i] :
                        i \in {j \in DOMAIN Chunks(polygons) :
                                  ~command.culling \/ NormalZ(Chunks(polygons)[j]) > 0}}

\* The part of C23 that holds: the build with culling enabled
C23_CullingEnabled == command.culling => C23_CullingFlag

RECURSIVE FaceNormalSum(_, _, _)
\* The sum of the face normals of the triangles of m, from the i-th on, that
\* have a vertex at the position key
FaceNormalSum(m, key, i) ==
    IF i > Len(Chunks(m)) THEN <<0, 0, 0>>
    ELSE add_vectors(
             IF \E v \in 1..3 : vector_to_key(Chunks(m)[i][v]) = key
             THEN GridVector(FaceNormal(Chunks(m)[i]))
             ELSE <<0, 0, 0>>,
             FaceNormalSum(m, key, i + 1))

\* Two unit vectors that differ by at most 1/50 in every coordinate
NearVector(a, b) == \A i \in 1..3 : Abs(a[i] - b[i]) <= Scale \div 50

\* C24: in Gouraud and Phong mode the normal that a triangle is drawn with
\* at a vertex is normalize(sum of the face normals of all triangles of the
\* list that share the vertex position), whatever the order of the
\* triangles; it is stated for the positions whose sum is not the zero
\* vector.
C24_VertexNormals ==
    (pc = "rendered")
    => \A r \in picture :
          (r.shading \in {"Gouraud", "Phong"})
          => \A i \in 1..3 :
                LET sum == FaceNormalSum(polygons, vector_to_key(r.polygon[i]), 1)
                IN  (sum # <<0, 0, 0>>) => NearVector(r.normals[i], GridNormalize(sum))

\* The part of C24 that holds: lists of a single triangle
C24_SingleTriangle == (Len(polygons) <= 3) => C24_VertexNormals

\* ------------------------------------------------------------------------
\* add_box on its own
\* ------------------------------------------------------------------------

\* The coordinates and the sizes of the boxes: a flat, a negative and a
\* positive value
BoxVals == {-1, 0, MaxVal}

BoxCmds ==
    [kind : {"Box"}, constants : {"none"}, x : BoxVals, y : BoxVals, z : BoxVals,
     w : BoxVals, h : BoxVals, d : BoxVals, coord_system : {"none"}]

\* One box command and a polygon list that is empty or holds a triangle
InitBox ==
    /\ commands \in [1..1 -> BoxCmds]
    /\ first_result = NotRun
    /\ Pass2Idle
    /\ picture = {} /\ edges = <<>>
    /\ polygons \in {<<>>, add_polygon(<<>>, Front)}
    /\ coordinate_stack = CoordinateStack_new /\ marks = <<>>
    /\ shading_mode = DEFAULT_SHADING_MODE /\ point_lights = 1
    /\ camera_matrix = Identity /\ symbols = EmptyMap /\ mesh_cache = EmptyMap
    /\ files = [p \in Paths |-> MissingFile]
    /\ pc = "add_box" /\ frame_knob_list = NewFrameKnobs(0) /\ frame = 0 /\ ip = 1
    /\ gif = <<>> /\ load_count = [p \in Paths |-> 0] /\ run_result = Running
    /\ callers = <<>> /\ io = {}

\* The call of add_box
AddBox ==
    /\ pc = "add_box"
    /\ LET c == commands[ip]
       IN  polygons' = add_box(polygons, c.x, c.y, c.z, c.w, c.h, c.d)
    /\ pc' = "added"
    /\ UNCHANGED <<pass1Vars, pass2Vars, picture, edges, coordinate_stack, marks,
                   shading_mode, point_lights, camera_matrix, symbols, mesh_cache,
                   files, frame_knob_list, frame, ip, gif, load_count, callers, io,
                   run_result>>

NextBox == AddBox

SpecBox == InitBox /\ [][NextBox]_vars

\* The corners {x, x+w} x {y, y-h} x {z, z-d} as points
Corners(c) ==
    {<<px, py, pz, 1>> : px \in {c.x, c.x + c.w}, py \in {c.y, c.y - c.h},
                         pz \in {c.z, c.z - c.d}}

\* C13: add_box(x, y, z, w, h, d) appends exactly 36 vertices (12 triangles)
\* to the polygon list, every appended vertex is one of the 8 corners
\* {x, x+w} x {y, y-h} x {z, z-d}, every corner occurs, and the vertices
\* that were in the list are unchanged.
C13_AddBox ==
    [][pc = "add_box"
       => LET old == Len(polygons)
              appended == {polygons'[i] : i \in (old + 1)..Len(polygons')}
          IN  /\ Len(polygons') = old + 36
              /\ appended = Corners(commands[ip])
              /\ SubSeq(polygons', 1, old) = polygons]_vars

\* A box with eight different corners has been added behind a triangle
C13_Witness ==
    /\ pc = "added"
    /\ Len(polygons) = 39
    /\ Cardinality(Corners(commands[ip])) = 8

\* ------------------------------------------------------------------------
\* Properties of the coordinate stack and of the knobs
\* ------------------------------------------------------------------------

\* execute_command is about to be called on a command of one of the kinds
Running_(kinds) == Replaying /\ commands[ip].kind \in kinds

\* C11: the coordinate stack is never empty, within a frame and across frame
\* resets, and a pop executed when one element remains leaves that element
\* in place.
C11_StackNeverEmpty ==
    /\ [](Len(coordinate_stack) >= 1)
    /\ [][(Running_({"Pop"}) /\ Len(coordinate_stack) = 1)
          => coordinate_stack' = coordinate_stack]_vars

\* A pop was executed on a stack of one transformed element, which is still
\* there
C11_Witness ==
    /\ pc \in {"still", "replay"}
    /\ ip > 2
    /\ commands[ip - 1].kind = "Pop"
    /\ commands[ip - 2].kind = "Scale"
    /\ Len(coordinate_stack) = 1
    /\ coordinate_stack # CoordinateStack_new

\* C12: a pop that matches a push leaves the coordinate stack as it was
\* before that push, same depth and same top, whatever was pushed, popped
\* and transformed between the two.
C12_PushPopRestores ==
    [][(Running_({"Pop"}) /\ marks # <<>>)
       => coordinate_stack' = marks[Len(marks)]]_vars

\* A pop has restored a transformed top after the copy above it had been
\* transformed again
C12_Witness ==
    /\ pc \in {"still", "replay"}
    /\ ip > 3
    /\ commands[ip - 1].kind = "Pop"
    /\ commands[ip - 2].kind = "Scale"
    /\ commands[ip - 3].kind = "Push"
    /\ marks = <<>>
    /\ Len(coordinate_stack) = 1

\* C14: a scale command with factors (a, b, c) and a knob of value k applies
\* the factor 1 + (requested - 1) * k on each axis: the identity for k = 0,
\* the requested factors for k = 1 and for a command without a knob.
C14_ScaleKnob ==
    [][Running_({"Scale"})
       => LET c == commands[ip]
              k == get_knob_value(symbols, c.knob)
              factor(requested) == IntOf(Add(FromInt(1), Mul(FromInt(requested - 1), k)))
          IN  coordinate_stack' =
                  apply_transformation(coordinate_stack,
                      dilation(factor(c.a), factor(c.b), factor(c.c)))]_vars

\* ------------------------------------------------------------------------
\* Properties of the frame loop
\* ------------------------------------------------------------------------

C17_FrameIndependent ==
    (pc = "replay" /\ ip = 1)
    => /\ shading_mode = DEFAULT_SHADING_MODE
       /\ point_lights = 1
       /\ camera_matrix = Identity

\* C20: a solid or mesh command whose constants name or coordinate-system
\* name is not bound, or is bound to a symbol of another kind, ends in an
\* error result and never in an abort of the process.
C20_ErrorNotAbort == run_result # Panic

\* ------------------------------------------------------------------------
\* Drawing commands, solid commands and the camera
\* ------------------------------------------------------------------------

LineCmds == {[kind |-> "Line", p0 |-> <<0, 0, 0>>, p1 |-> <<1, 0, 0>>]}

\* A camera at the origin that looks along +z: its matrix is
\* diag(-1, 1, -1, 1), which is its own transpose
SetCameraCmds == {[kind |-> "SetCamera", eye |-> <<0, 0, 0>>, aim |-> <<0, 0, 1>>]}

\* A line, a camera, a mirror, a triangle, the unit box, a mesh and the frame
\* count
DrawCmds ==
    LineCmds \cup SetCameraCmds \cup ScaleCmds
    \cup {c \in PolygonCmds : c.polygon = Front /\ c.coord_system = "none"}
    \cup {c \in BoxCmds : c.x = 0 /\ c.y = 0 /\ c.z = 0
                          /\ c.w = MaxVal /\ c.h = MaxVal /\ c.d = MaxVal}
    \cup {c \in MeshCmds : c.file_path = "a.obj"}
    \cup {c \in SetFramesCmds : c.num_frames = MaxFrames}

DrawScripts == UNION {[1..k -> DrawCmds] : k \in 0..MaxScript}

InitDraw ==
    /\ commands \in DrawScripts
    /\ first_result = NotRun
    /\ Pass2Idle
    /\ ScriptContext_new
    /\ files \in {f \in [Paths -> MeshFiles] : f["b.obj"] = MissingFile}
    /\ pc = "evaluate" /\ frame_knob_list = NewFrameKnobs(0) /\ frame = 0 /\ ip = 0
    /\ gif = <<>> /\ load_count = [p \in Paths |-> 0] /\ run_result = Running
    /\ callers = <<>> /\ io = {}

NextDraw ==
    \/ Evaluate
    \/ FrameStart
    \/ ExecLine
    \/ ExecSetCamera
    \/ ExecScale
    \/ ExecPolygon
    \/ ExecBox
    \/ ExecMesh
    \/ ExecIgnored
    \/ StillEnd
    \/ FrameEnd

SpecDraw == InitDraw /\ [][NextDraw]_vars

\* C18: a drawing command transforms its edges by the top of the coordinate
\* stack and then by the camera matrix before they are rasterized, as the
\* solid commands do with their polygons.
C18_EdgesSeeCamera ==
    [][Running_({"Line"})
       => LET c == commands[ip]
              world == TransformPoints(peek(coordinate_stack),
                                       add_edge(edges, c.p0, c.p1))
          IN  picture' = picture \cup render_edges(TransformPoints(camera_matrix, world))]_vars

\* C19: after every command that completes successfully the edge list and
\* the polygon list are empty.
C19_BuffersTransient ==
    (run_result \in {Running, RunOk}) => (edges = <<>> /\ polygons = <<>>)

\* A mesh was loaded and drawn, drawn again from the cache, and a line was
\* drawn after it
C19_Witness ==
    /\ run_result = Running
    /\ pc \in {"still", "replay"}
    /\ ip = 4
    /\ commands[1].kind = "Mesh" /\ commands[2].kind = "Mesh"
    /\ commands[3].kind = "Line"
    /\ load_count["a.obj"] = 1
    /\ \E r \in picture : r.shading = "Line"
    /\ \E r \in picture : r.shading # "Line"

\* ------------------------------------------------------------------------
\* Knobs across the frames
\* ------------------------------------------------------------------------

\* An enlargement driven by the knob k1, k1 driven from 0 to MaxVal over the
\* frames 0..MaxFrames - 1, k1 set to 0, every knob set to 1, and a frame
\* count with one frame behind the range of the vary
KnobCmds ==
    {[kind |-> "Scale", a |-> 2, b |-> 2, c |-> 2, knob |-> "k1"],
     [kind |-> "SetKnob", name |-> "k1", value |-> 0],
     [kind |-> "SetAllKnobs", value |-> 1],
     [kind |-> "SetFrames", num_frames |-> MaxFrames + 1]}
    \cup RunVaryCmds

KnobScripts == UNION {[1..k -> KnobCmds] : k \in 0..MaxScript}

InitKnobs == InitScript(KnobScripts)

NextKnobs ==
    \/ Evaluate
    \/ FrameStart
    \/ ExecScale
    \/ ExecSetKnob
    \/ ExecSetAllKnobs
    \/ ExecIgnored
    \/ StillEnd
    \/ FrameEnd

SpecKnobs == InitKnobs /\ [][NextKnobs]_vars

\* The value the knob name last received when the first i commands of frame
\* f have been executed, as a set of at most one value: from a set command,
\* from a setknobs command if the knob was there, from the map of the frame,
\* or else what the frame before left
RECURSIVE Received(_, _, _)
Received(name, f, i) ==
    IF i = 0
    THEN IF f \in DOMAIN frame_knob_list /\ name \in DOMAIN frame_knob_list[f]
         THEN {frame_knob_list[f][name]}
         ELSE IF f > 0 THEN Received(name, f - 1, Len(commands)) ELSE {}
    ELSE IF commands[i].kind = "SetKnob" /\ commands[i].name = name
         THEN {FromInt(commands[i].value)}
         ELSE IF commands[i].kind = "SetAllKnobs" /\ Received(name, f, i - 1) # {}
         THEN {FromInt(commands[i].value)}
         ELSE Received(name, f, i - 1)

\* The multiplier of a transformation that names the knob
Resolved(name, f, i) ==
    IF Received(name, f, i) = {} THEN FromInt(1)
    ELSE CHOOSE v \in Received(name, f, i) : TRUE

Padded(saved, l0, l1) ==
    [x \in DOMAIN saved |->
        IF x \in {l0, l1}
        THEN [k \in (DOMAIN saved[l0]) \cup (DOMAIN saved[l1]) |-> GetOr0(saved[x], k)]
        ELSE saved[x]]

\* C30: the values of set and setknobs commands never enter pass 2: such a
\* command changes no frame's knob map and no snapshot; a knob enters the map
\* of a frame only by a vary directive for it or by a tween one of whose
\* snapshots holds it; a snapshot taken holds exactly the frame-0 map the
\* directives read so far have built; and a tween resolves what it would
\* resolve if the knobs that one of its snapshots lacks were stored there
\* with the value 0.
C30_SetOutsidePass2 ==
    [][/\ Executing({"SetKnob", "SetAllKnobs"})
          => /\ frame_knobs' = frame_knobs
             /\ saved_knobs' = saved_knobs
             /\ second_result' = second_result
       /\ \A f \in DOMAIN frame_knobs :
              \A k \in (DOMAIN frame_knobs'[f]) \ (DOMAIN frame_knobs[f]) :
                  \/ Executing({"VaryKnob"}) /\ k = command.knob
                  \/ /\ Executing({"Tween"})
                     /\ k \in (DOMAIN saved_knobs[command.knoblist0])
                              \cup (DOMAIN saved_knobs[command.knoblist1])
       /\ Executing({"SaveKnobList"})
          => saved_knobs'[command.name] = frame_knobs[0]
       /\ (/\ Executing({"Tween"})
           /\ command.knoblist0 \in DOMAIN saved_knobs
           /\ command.knoblist1 \in DOMAIN saved_knobs)
          => frame_knobs' =
                 Tween(frame_knobs,
                       Padded(saved_knobs, command.knoblist0, command.knoblist1),
                       command, frames).fk]_vars

\* The set of k1 is the command pass 2 reads, after a vary of k2 and a
\* save_knobs: no frame has a value for k1 and the snapshot holds k2 only
C30_Witness ==
    /\ Executing({"SetKnob"})
    /\ command.name = "k1"
    /\ "A" \in DOMAIN saved_knobs
    /\ DOMAIN saved_knobs["A"] = {"k2"}
    /\ \A f \in DOMAIN frame_knobs : "k1" \notin DOMAIN frame_knobs[f]

====
